---- MODULE Spec2Model ----
(***************************************************************************)
(* Vapi Campaign Creator: the data pipeline.                               *)
(*                                                                         *)
(*   lib/phoneFormatter.ts   formatPhoneNumber                             *)
(*   lib/dataValidator.ts    validateAndCleanData, isValidEmail, cleanText *)
(*   lib/chunkProcessor.ts   ChunkProcessor                                *)
(*   public/workers/dataProcessor.js                                       *)
(*   lib/vapiClient.ts       VapiClient.createCampaign, createBatches      *)
(*   app/page.tsx            handleProcessData                             *)
(*                                                                         *)
(* Strings the code inspects character by character (names, emails) are    *)
(* sequences of one-character strings.  Phone strings are atomic: they are *)
(* only handed to libphonenumber-js, whose answer is the table             *)
(* parsePhoneNumber below.                                                 *)
(***************************************************************************)
EXTENDS Integers, Sequences, FiniteSets, TLC

(* ---------------------------------------------------------------------- *)
(* Bounds of the model                                                     *)
(* ---------------------------------------------------------------------- *)

\* longest row list handed to validateAndCleanData
MaxRows == 3

\* largest small chunkSize option tried (the default, 1000, is tried as well)
MaxChunkSize == 3

\* most iterations of a chunk loop that one run of the model goes through
MaxIterations == 11

\* createCampaign is called with up to this many full batches of leads (plus
\* a partial one)
MaxFullBatches == 2

\* how often the clock of the proxy advances in one run of the model
MaxTicks == 2

\* most requests of the second client IP that the proxy forwards
MaxOtherForwarded == 1

\* longest name handed to cleanText
MaxNameLen == 5

\* most headers of a file handed to detectColumns
MaxHeaders == 5

\* most auto-hide timers of success alerts pending when a step of the form
\* starts another
MaxAlertTimers == 2

(* ---------------------------------------------------------------------- *)
(* Constants of the program                                                *)
(* ---------------------------------------------------------------------- *)

\* ChunkProcessor: options.chunkSize by default, and the value page.tsx passes
DefaultChunkSize == 1000

\* ChunkProcessor.processData: data.length > 10000
LargeDatasetThreshold == 10000

\* VapiClient.createCampaign: const batchSize = 1000
BatchSize == 1000

\* the proxy, isRateLimited: the window of one minute, in ms
RateWindow == 60000

\* the proxy, isRateLimited: 10 requests per minute
RateLimit == 10

(* ---------------------------------------------------------------------- *)
(* Small helpers on sequences                                              *)
(* ---------------------------------------------------------------------- *)

Min(a, b) == IF a < b THEN a ELSE b

\* Array.prototype.slice(from, to) with 0-based, end-exclusive indices
Slice(s, from, to) == SubSeq(s, from + 1, Min(to, Len(s)))

RECURSIVE Flatten(_)
Flatten(ss) == IF ss = << >> THEN << >> ELSE Head(ss) \o Flatten(Tail(ss))

Range(s) == { s[i] : i \in 1..Len(s) }

\* all sequences over S of length 0..n
SeqsUpTo(S, n) == UNION { [1..k -> S] : k \in 0..n }

(* ---------------------------------------------------------------------- *)
(* lib/phoneFormatter.ts                                                   *)
(* ---------------------------------------------------------------------- *)

\* libphonenumber-js, parsePhoneNumber(cleanPhone, 'US'), on the raw phone
\* strings of the model: it throws a ParseError, or returns a PhoneNumber
\* that is invalid, or one that is valid and has an E.164 form.
parsePhoneNumber(phone) ==
    CASE phone = "not-a-number"   -> [kind |-> "throws", message |-> "NOT_A_NUMBER"]
      [] phone = "212-555-01"     -> [kind |-> "number", valid |-> FALSE, e164 |-> "+121255501"]
      [] phone = "212-555-0100"   -> [kind |-> "number", valid |-> TRUE,  e164 |-> "+12125550100"]
      [] phone = "(212) 555-0100" -> [kind |-> "number", valid |-> TRUE,  e164 |-> "+12125550100"]
      [] phone = "+1 646 555 0199" -> [kind |-> "number", valid |-> TRUE, e164 |-> "+16465550199"]
      [] OTHER                    -> [kind |-> "undefined"]

\* the raw phone strings of the model ("" is the empty cell)
Phones == { "", "not-a-number", "212-555-01", "212-555-0100", "(212) 555-0100",
            "+1 646 555 0199" }

\* a faulty formatPhoneNumber, for comparison: isValid() is not consulted
formatPhoneNumberUnchecked(phone) ==
    IF phone = ""
    THEN [isValid |-> FALSE, error |-> "Phone number is required"]
    ELSE LET phoneNumber == parsePhoneNumber(phone) IN
         CASE phoneNumber.kind = "throws" ->
                  [isValid |-> FALSE, error |-> phoneNumber.message]
           [] phoneNumber.kind = "undefined" ->
                  [isValid |-> FALSE, error |-> "Unable to parse phone number"]
           [] OTHER ->
                  [isValid |-> TRUE, formatted |-> phoneNumber.e164]

formatPhoneNumber(phone) ==
    IF phone = ""
    THEN [isValid |-> FALSE, error |-> "Phone number is required"]
    ELSE LET phoneNumber == parsePhoneNumber(phone) IN
         CASE phoneNumber.kind = "throws" ->
                  [isValid |-> FALSE, error |-> phoneNumber.message]
           [] phoneNumber.kind = "undefined" ->
                  [isValid |-> FALSE, error |-> "Unable to parse phone number"]
           [] phoneNumber.kind = "number" /\ ~phoneNumber.valid ->
                  [isValid |-> FALSE, error |-> "Invalid phone number format"]
           [] OTHER ->
                  [isValid |-> TRUE, formatted |-> phoneNumber.e164]

HasFormatted(phoneResult) == "formatted" \in DOMAIN phoneResult

(* ---------------------------------------------------------------------- *)
(* lib/dataValidator.ts                                                    *)
(* ---------------------------------------------------------------------- *)

\* \s of the regular expressions, on the characters of the model
IsSpace(c) == c \in { " ", "\t" }

RECURSIVE TrimLeft(_)
TrimLeft(s) == IF s # << >> /\ IsSpace(Head(s)) THEN TrimLeft(Tail(s)) ELSE s

RECURSIVE TrimRight(_)
TrimRight(s) ==
    IF s # << >> /\ IsSpace(s[Len(s)]) THEN TrimRight(SubSeq(s, 1, Len(s) - 1)) ELSE s

\* String.prototype.trim
Trim(s) == TrimRight(TrimLeft(s))

\* /^[^\s@]+@[^\s@]+\.[^\s@]+$/ : one "@", no white space, a non-empty local
\* part, and after the "@" a "." with at least one character on each side
isValidEmail(email) ==
    LET plain(i, j) == \A k \in i..j : ~IsSpace(email[k]) /\ email[k] # "@" IN
    \E at \in 1..Len(email) :
        /\ email[at] = "@"
        /\ at > 1 /\ plain(1, at - 1)
        /\ \E dot \in (at + 2)..(Len(email) - 1) :
              /\ email[dot] = "."
              /\ plain(at + 1, dot - 1)
              /\ plain(dot + 1, Len(email))

\* replace(/\s+/g, ' ')
RECURSIVE CollapseSpaces(_)
CollapseSpaces(s) ==
    IF s = << >> THEN << >>
    ELSE IF IsSpace(Head(s))
         THEN << " " >> \o CollapseSpaces(TrimLeft(s))
         ELSE << Head(s) >> \o CollapseSpaces(Tail(s))

\* replace(/[<>\"]/g, '')
StripSpecial(s) == SelectSeq(s, LAMBDA c : c \notin { "<", ">", "\"" })

cleanText(text) ==
    IF text = << >> THEN << >>
    ELSE StripSpecial(CollapseSpaces(Trim(text)))

InvalidPhoneError(phoneResult) ==
    CASE phoneResult.error = "Phone number is required" ->
             "Invalid phone: Phone number is required"
      [] phoneResult.error = "Unable to parse phone number" ->
             "Invalid phone: Unable to parse phone number"
      [] phoneResult.error = "Invalid phone number format" ->
             "Invalid phone: Invalid phone number format"
      [] phoneResult.error = "NOT_A_NUMBER" ->
             "Invalid phone: NOT_A_NUMBER"
      [] OTHER -> "Invalid phone: Unknown error"

\* the accumulators of one call of validateAndCleanData, before the first row
ValidationStart ==
    [valid |-> << >>, invalid |-> << >>, seenPhones |-> {}, duplicates |-> 0]

\* a faulty email check, for comparison: the problem is not recorded
EmailErrorsDropped(cleanEmail) == << >>

\* the errors of the email check of one row (empty when the email passes)
EmailErrors(cleanEmail) ==
    IF cleanEmail # << >> /\ ~isValidEmail(cleanEmail)
    THEN << "Invalid email format" >>
    ELSE << >>

\* the body of data.forEach(row => ...): one row against the accumulators
ValidateRow(acc, row) ==
    LET phoneResult == formatPhoneNumber(row.phone)
        phoneErrors ==
            IF ~phoneResult.isValid \/ ~HasFormatted(phoneResult)
            THEN << InvalidPhoneError(phoneResult) >>
            ELSE << >>
        isDuplicate ==
            HasFormatted(phoneResult) /\ phoneResult.formatted \in acc.seenPhones
        dupErrors == IF isDuplicate THEN << "Duplicate phone number" >> ELSE << >>
        trimmed == Trim(row.email)
        emailErrors == EmailErrors(trimmed)
        cleanEmail == IF trimmed # << >> /\ ~isValidEmail(trimmed) THEN << >> ELSE trimmed
        cleanName == cleanText(row.name)
        errors == phoneErrors \o dupErrors \o emailErrors
        duplicates == IF isDuplicate THEN acc.duplicates + 1 ELSE acc.duplicates
    IN  IF Len(errors) > 0
        THEN [acc EXCEPT
                !.invalid = Append(@, [rowIndex |-> row.rowIndex,
                                       data |-> row.originalData,
                                       errors |-> errors]),
                !.duplicates = duplicates]
        ELSE IF HasFormatted(phoneResult)
        THEN [acc EXCEPT
                !.seenPhones = @ \cup { phoneResult.formatted },
                !.valid = Append(@,
                    IF cleanEmail # << >>
                    THEN [name |-> cleanName, number |-> phoneResult.formatted,
                          email |-> cleanEmail]
                    ELSE [name |-> cleanName, number |-> phoneResult.formatted]),
                !.duplicates = duplicates]
        ELSE [acc EXCEPT !.duplicates = duplicates]

\* the accumulators after the forEach body ran on rows lo..hi of data, in
\* order, from the accumulators acc.  The range is halved to keep the
\* evaluation shallow on long inputs; the rows are still taken in order, and
\* the test on the count (never negative) has the first half evaluated
\* before the second starts.
RECURSIVE ValidateRange(_, _, _, _)
ValidateRange(acc, data, lo, hi) ==
    IF lo > hi THEN acc
    ELSE IF lo = hi THEN ValidateRow(acc, data[lo])
    ELSE LET mid == (lo + hi) \div 2
             firstHalf == ValidateRange(acc, data, lo, mid)
         IN  IF firstHalf.duplicates >= 0
             THEN ValidateRange(firstHalf, data, mid + 1, hi)
             ELSE firstHalf

\* the accumulators after rows 1..n of data
ValidateRows(data, n) == ValidateRange(ValidationStart, data, 1, n)

\* a faulty summary, for comparison: the duplicates are taken off the invalid
\* rows
ValidationResultNetOfDuplicates(data, acc) ==
    [valid |-> acc.valid,
     invalid |-> acc.invalid,
     duplicates |-> acc.duplicates,
     summary |-> [totalRows |-> Len(data),
                  validRows |-> Len(acc.valid),
                  invalidRows |-> Len(acc.invalid) - acc.duplicates,
                  duplicateRows |-> acc.duplicates]]

\* the return value built from the accumulators
ValidationResult(data, acc) ==
    [valid |-> acc.valid,
     invalid |-> acc.invalid,
     duplicates |-> acc.duplicates,
     summary |-> [totalRows |-> Len(data),
                  validRows |-> Len(acc.valid),
                  invalidRows |-> Len(acc.invalid),
                  duplicateRows |-> acc.duplicates]]

validateAndCleanData(data) == ValidationResult(data, ValidateRows(data, Len(data)))

(* ---------------------------------------------------------------------- *)
(* lib/fileParser.ts: extractDataByColumns                                 *)
(* ---------------------------------------------------------------------- *)

\* the cells of one raw row that the confirmed mapping selects
NameA == << "A", "n", "n" >>
NameB == << " ", "<", "B", ">", " ", " ", "o", "b", " " >>
EmailGood == << " ", "a", "@", "b", ".", "c", " " >>
EmailBad == << "a", "@", "b" >>

Emails == { << >>, EmailGood, EmailBad }

\* the raw rows of the model: every phone with every email, and a second name
RawRows ==
    { [phone |-> p, name |-> NameA, email |-> e] : p \in Phones, e \in Emails }
      \cup { [phone |-> "212-555-0100", name |-> NameB, email |-> << >>] }

\* The headers of the raw table are "phone", "name" and "email"; a column
\* argument is one of them, or "" when no column is selected.
\* rows.map((row, index) => ({rowIndex: index + 1, phone: row[phoneColumn] || '',
\*     name: nameColumn ? row[nameColumn] || '' : '', email: ..., originalData: row}))
extractDataByColumns(rows, phoneColumn, nameColumn, emailColumn) ==
    [i \in 1..Len(rows) |->
        [rowIndex |-> i,
         phone |-> IF phoneColumn = "phone" THEN rows[i].phone ELSE "",
         name |-> IF nameColumn = "name" THEN rows[i].name ELSE << >>,
         email |-> IF emailColumn = "email" THEN rows[i].email ELSE << >>,
         originalData |-> rows[i]]]

\* the extracted rows when every column is mapped
ExtractAll(rows) == extractDataByColumns(rows, "phone", "name", "email")

(* ---------------------------------------------------------------------- *)
(* lib/fileParser.ts: detectColumns                                        *)
(* ---------------------------------------------------------------------- *)

\* Headers and patterns are sequences of characters.
UpperCase == << "A", "B", "C", "D", "E", "F", "G", "H", "I", "J", "K", "L", "M" >>
                 \o << "N", "O", "P", "Q", "R", "S", "T", "U", "V", "W", "X", "Y", "Z" >>
LowerCase == << "a", "b", "c", "d", "e", "f", "g", "h", "i", "j", "k", "l", "m" >>
                 \o << "n", "o", "p", "q", "r", "s", "t", "u", "v", "w", "x", "y", "z" >>
Digits == { "0", "1", "2", "3", "4", "5", "6", "7", "8", "9" }

\* String.prototype.toLowerCase, one character
toLowerCase(c) ==
    IF \E i \in 1..Len(UpperCase) : UpperCase[i] = c
    THEN LowerCase[CHOOSE i \in 1..Len(UpperCase) : UpperCase[i] = c]
    ELSE c

\* h.toLowerCase().replace(/[^a-z0-9]/g, '')
NormalizeHeader(h) ==
    SelectSeq([i \in 1..Len(h) |-> toLowerCase(h[i])],
              LAMBDA c : c \in Range(LowerCase) \cup Digits)

\* String.prototype.includes
includes(str, searchString) ==
    \E i \in 0..(Len(str) - Len(searchString)) :
        SubSeq(str, i + 1, i + Len(searchString)) = searchString

phonePatterns ==
    << << "p", "h", "o", "n", "e" >>,
       << "m", "o", "b", "i", "l", "e" >>,
       << "c", "e", "l", "l" >>,
       << "n", "u", "m", "b", "e", "r" >>,
       << "t", "e", "l", "e", "p", "h", "o", "n", "e" >>,
       << "c", "o", "n", "t", "a", "c", "t" >> >>

namePatterns ==
    << << "n", "a", "m", "e" >>,
       << "c", "u", "s", "t", "o", "m", "e", "r" >>,
       << "c", "l", "i", "e", "n", "t" >>,
       << "c", "o", "n", "t", "a", "c", "t" >>,
       << "p", "e", "r", "s", "o", "n" >>,
       << "l", "e", "a", "d" >> >>

emailPatterns ==
    << << "e", "m", "a", "i", "l" >>,
       << "m", "a", "i", "l" >>,
       << "e", "m", "a", "i", "l", "_", "a", "d", "d", "r", "e", "s", "s" >>,
       << "e", "-", "m", "a", "i", "l" >> >>

\* what one pattern adds to the score of a normalized header
PatternScore(normalized, pattern) ==
    IF normalized = pattern THEN 10
    ELSE IF includes(normalized, pattern) THEN 5
    ELSE IF includes(pattern, normalized) /\ Len(normalized) > 3 THEN 2
    ELSE 0

\* the score of a header after patterns.forEach
RECURSIVE ScoreUpTo(_, _, _)
ScoreUpTo(normalized, patterns, n) ==
    IF n = 0 THEN 0
    ELSE ScoreUpTo(normalized, patterns, n - 1) + PatternScore(normalized, patterns[n])

HeaderScore(header, patterns) ==
    ScoreUpTo(NormalizeHeader(header), patterns, Len(patterns))

\* the scores array after headers.forEach: the headers of score > 0, in
\* header order
ScoresOf(headers, patterns) ==
    SelectSeq([i \in 1..Len(headers) |->
                  [column |-> headers[i], score |-> HeaderScore(headers[i], patterns)]],
              LAMBDA e : e.score > 0)

\* a faulty sort, for comparison: the array is left as it is
SortScoresNot(scores) == scores

\* scores.sort((a, b) => b.score - a.score): descending, and stable
RECURSIVE SortScores(_)
SortScores(scores) ==
    IF scores = << >> THEN << >>
    ELSE LET n == Len(scores)
             sorted == SortScores(SubSeq(scores, 1, n - 1))
             e == scores[n]
             k == Cardinality({ i \in 1..(n - 1) : sorted[i].score >= e.score })
         IN  SubSeq(sorted, 1, k) \o << e >> \o SubSeq(sorted, k + 1, n - 1)

\* detectColumn: column is << the header >> or << >> for null; confidence
\* is kept in tenths, Math.min(score / 10, 1) being Min(score, 10) tenths
detectColumn(headers, patterns) ==
    LET scores == SortScores(ScoresOf(headers, patterns))
    IN  [column |-> IF scores # << >> THEN << scores[1].column >> ELSE << >>,
         confidenceTenths |-> IF scores # << >> THEN Min(scores[1].score, 10) ELSE 0,
         alternates |-> [i \in 1..(Min(Len(scores), 4) - 1) |-> scores[i + 1].column]]

\* the patterns of a field
PatternsOf(field) ==
    CASE field = "phone" -> phonePatterns
      [] field = "name" -> namePatterns
      [] field = "email" -> emailPatterns

Detection(headers, field) ==
    LET d == detectColumn(headers, PatternsOf(field))
    IN  [field |-> field, detectedColumn |-> d.column,
         confidenceTenths |-> d.confidenceTenths, alternates |-> d.alternates]

detectColumns(headers) ==
    << Detection(headers, "phone"), Detection(headers, "name"),
       Detection(headers, "email") >>

\* the headers of the model
HeaderNames ==
    { << "P", "h", "o", "n", "e" >>,
      << "M", "o", "b", "i", "l", "e", " ", "N", "u", "m", "b", "e", "r" >>,
      << "P", "h", "o", "n", "e", " ", "2" >>,
      << "t", "e", "l", "e" >>,
      << "C", "o", "n", "t", "a", "c", "t" >>,
      << "C", "u", "s", "t", "o", "m", "e", "r", " ", "N", "a", "m", "e" >>,
      << "E", "m", "a", "i", "l", " ", "A", "d", "d", "r", "e", "s", "s" >>,
      << "N", "o" >> }

\* headers are Object.keys of the first row: no header occurs twice
HeaderLists ==
    { h \in SeqsUpTo(HeaderNames, MaxHeaders) :
          \A i, j \in 1..Len(h) : h[i] = h[j] => i = j }

(* ---------------------------------------------------------------------- *)
(* State                                                                   *)
(* ---------------------------------------------------------------------- *)

VARIABLES
    vData,      \* validateAndCleanData: the rows it was called with
    vNext,      \* validateAndCleanData: index of the next row of the forEach
    vAcc,       \* validateAndCleanData: valid, invalid, seenPhones, duplicates
    vResult     \* validateAndCleanData: << the value returned >>, << >> before

validateVars == << vData, vNext, vAcc, vResult >>

VARIABLES
    cpOptions,   \* ChunkProcessor.options: chunkSize, useWebWorker, onProgress given
    hasWorkerApi, \* typeof Worker !== 'undefined'
    cpProcessor, \* the processor argument of processData: which callback it is
    cpData,      \* the data argument of processData
    cpPc,        \* where processData stands
    cpI,         \* processInChunks: the loop variable i
    cpResults,   \* the results array of the running path
    cpProgress,  \* the calls of options.onProgress so far: << processed, total >>
    cpWorker,    \* ChunkProcessor.worker: "null", "live" or "terminated"
    cpOutcome,   \* how the promise of processData settled: << >> while pending
    wkPc,        \* the worker: "idle", "loop" or "finished"
    wkI,         \* the worker's loop variable i
    wkInbox,     \* messages posted to the worker and not yet received
    wkOutbox     \* messages posted by the worker and not yet handled by onmessage

chunkVars == << cpOptions, hasWorkerApi, cpProcessor, cpData, cpPc, cpI, cpResults,
                cpProgress, cpWorker, cpOutcome, wkPc, wkI, wkInbox, wkOutbox >>

VARIABLES
    ucArgs,         \* createCampaign: leads, assistantId, workflowId,
                    \*   phoneNumberId ("" when not given), onProgress given
    ucPc,           \* createCampaign: where the call stands
    ucBatches,      \* createCampaign: batches
    ucI,            \* createCampaign: the loop variable i
    ucCampaignId,   \* createCampaign: << campaignData.id >>, << >> before
    ucBatchResults, \* createCampaign: batchResults
    ucEvents,       \* createCampaign: what the call did so far, in order
    ucReturn,       \* createCampaign: << the value returned >>, << >> before
    netInFlight,    \* requests sent through fetch and not yet answered
    remoteCampaigns \* the remote API: ids of the campaigns it has created

uploadVars == << ucArgs, ucPc, ucBatches, ucI, ucCampaignId, ucBatchResults,
                 ucEvents, ucReturn, netInFlight, remoteCampaigns >>

VARIABLES
    appState,      \* page.tsx: 'input', 'mapping', 'processing' or 'complete'
    isProcessing,  \* page.tsx: isProcessing
    alert,         \* page.tsx: the type of the alert shown, "none" for null
    alertTimers,   \* page.tsx: pending setTimeout(() => setAlert(null), 5000)
    pgResult,      \* page.tsx: << result >>, << >> for null
    columnMapping, \* page.tsx: << mapping >>, << >> for null
    parsedRows,    \* page.tsx: parsedData.rows
    selected,      \* page.tsx: selectedType, selectedId, selectedPhoneNumberId
    hpPc,          \* handleProcessData: where the run stands
    hpValidation,  \* handleProcessData: << validation >>, << >> before
    hpProcessor,   \* handleProcessData: the run's ChunkProcessor: "none",
                   \*   "created", or "destroyed" once destroy() was called
    progress       \* page.tsx: progress

VARIABLES
    apiKey,           \* page.tsx: apiKey
    apiKeyValid,      \* page.tsx: apiKeyValid: "null", "true" or "false"
    keyFocused,       \* the API key input has the focus
    campaignName,     \* page.tsx: campaignName
    file,             \* page.tsx: file !== null
    parsePending,     \* handleFileSelect waits for parseFile
    resources,        \* page.tsx: which of assistants, workflows and
                      \*   phoneNumbers are non-empty
    loadingResources, \* page.tsx: loadingResources
    blurCall,         \* the validateApiKey call started by onBlur: "idle",
                      \*   "validate" (awaits the key check) or "resources"
    hsCall            \* handleStartProcessing: << >> when not running, else
                      \*   << where its validateApiKey call stands, and whether
                      \*   parsedData was set when the button was clicked >>

formVars == << apiKey, apiKeyValid, keyFocused, campaignName, file, parsePending,
               resources, loadingResources, blurCall, hsCall >>

pageVars == << appState, isProcessing, alert, alertTimers, pgResult, columnMapping,
               parsedRows, selected, hpPc, hpValidation, hpProcessor, formVars >>

VARIABLES
    dHeaders,   \* detectColumns: the headers it is called with
    dResult     \* detectColumns: << the value returned >>, << >> before

detectVars == << dHeaders, dResult >>

VARIABLES
    ctText,     \* cleanText: the text it is called with
    ctResult,   \* cleanText: << the value returned >>, << >> before
    ctAgain     \* cleanText called with that value: << the value returned >>

cleanVars == << ctText, ctResult, ctAgain >>

VARIABLES
    rateLimitMap, \* the proxy: per IP << count, resetTime >>, << >> without entry
    now,          \* the proxy: Date.now()
    pxTicks,      \* how often the clock of the model has advanced
    pxForwarded,  \* per IP the times of the requests forwarded to the upstream API
    pxLast        \* << ip and answer of the request handled last >>, << >> before

proxyVars == << rateLimitMap, now, pxTicks, pxForwarded, pxLast >>

\* the state of what runs apart from the pipeline
otherVars == << detectVars, cleanVars, proxyVars >>

vars == << validateVars, chunkVars, uploadVars, pageVars, progress, otherVars >>

(* ---------------------------------------------------------------------- *)
(* validateAndCleanData, row by row                                        *)
(* ---------------------------------------------------------------------- *)

\* validateAndCleanData is not running
ValidateIdle ==
    /\ vData = << >>
    /\ vNext = 1
    /\ vAcc = ValidationStart
    /\ vResult = << >>

\* detectColumns is not called
DetectIdle ==
    /\ dHeaders = << >>
    /\ dResult = << >>

\* cleanText is not called
CleanIdle ==
    /\ ctText = << >>
    /\ ctResult = << >>
    /\ ctAgain = << >>

\* the client IPs of the model: no x-forwarded-for header, and one address
ClientIps == { "unknown", "203.0.113.7" }

\* the proxy module is loaded and has handled no request
ProxyIdle ==
    /\ rateLimitMap = [ip \in ClientIps |-> << >>]
    /\ now = 0
    /\ pxTicks = 0
    /\ pxForwarded = [ip \in ClientIps |-> << >>]
    /\ pxLast = << >>

\* nothing runs apart from the pipeline
OtherIdle == DetectIdle /\ CleanIdle /\ ProxyIdle

\* no ChunkProcessor exists
ChunkIdle ==
    /\ cpOptions = [chunkSize |-> DefaultChunkSize, useWebWorker |-> TRUE,
                    onProgress |-> FALSE]
    /\ cpProcessor = "none"
    /\ cpData = << >>
    /\ cpPc = "idle"
    /\ cpI = 0
    /\ cpResults = << >>
    /\ cpProgress = << >>
    /\ cpWorker = "null"
    /\ cpOutcome = << >>
    /\ wkPc = "idle"
    /\ wkI = 0
    /\ wkInbox = << >>
    /\ wkOutbox = << >>

\* createCampaign is not running
UploadIdle ==
    /\ ucArgs = [leads |-> << >>, assistantId |-> "", workflowId |-> "",
                 phoneNumberId |-> "", onProgress |-> FALSE]
    /\ ucPc = "idle"
    /\ ucBatches = << >>
    /\ ucI = 0
    /\ ucCampaignId = << >>
    /\ ucBatchResults = << >>
    /\ ucEvents = << >>
    /\ ucReturn = << >>
    /\ netInFlight = << >>
    /\ remoteCampaigns = {}

\* the form of the 'input' state as the page is constructed
FormIdle ==
    /\ apiKey = ""
    /\ apiKeyValid = "null"
    /\ keyFocused = FALSE
    /\ campaignName = ""
    /\ file = FALSE
    /\ parsePending = FALSE
    /\ resources = [assistants |-> FALSE, workflows |-> FALSE, phoneNumbers |-> FALSE]
    /\ loadingResources = FALSE
    /\ blurCall = "idle"
    /\ hsCall = << >>

\* the page as it is constructed; no page is involved when the functions are
\* called on their own
PageIdle ==
    /\ FormIdle
    /\ appState = "input"
    /\ isProcessing = FALSE
    /\ alert = "none"
    /\ alertTimers = 0
    /\ pgResult = << >>
    /\ columnMapping = << >>
    /\ parsedRows = << >>
    /\ selected = [type |-> "assistant", id |-> "", phoneNumberId |-> ""]
    /\ hpPc = "idle"
    /\ hpValidation = << >>
    /\ hpProcessor = "none"
    /\ progress = 0

InitValidate ==
    /\ OtherIdle
    /\ ChunkIdle
    /\ hasWorkerApi = FALSE
    /\ UploadIdle
    /\ PageIdle
    /\ vData \in { ExtractAll(rows) : rows \in SeqsUpTo(RawRows, MaxRows) }
    /\ vNext = 1
    /\ vAcc = ValidationStart
    /\ vResult = << >>

\* one iteration of data.forEach
ValidateStep ==
    /\ vResult = << >>
    /\ vNext <= Len(vData)
    /\ vAcc' = ValidateRow(vAcc, vData[vNext])
    /\ vNext' = vNext + 1
    /\ UNCHANGED << vData, vResult >>
    /\ UNCHANGED << chunkVars, uploadVars, pageVars, progress, otherVars >>

\* the return statement
ValidateReturn ==
    /\ vResult = << >>
    /\ vNext > Len(vData)
    /\ vResult' = << ValidationResult(vData, vAcc) >>
    /\ UNCHANGED << vData, vNext, vAcc >>
    /\ UNCHANGED << chunkVars, uploadVars, pageVars, progress, otherVars >>

NextValidate == ValidateStep \/ ValidateReturn

SpecValidate == InitValidate /\ [][NextValidate]_vars


(* ---------------------------------------------------------------------- *)
(* lib/chunkProcessor.ts and public/workers/dataProcessor.js               *)
(* ---------------------------------------------------------------------- *)

\* Math.round(a / b) for a >= 0, b > 0
RoundDiv(a, b) == (2 * a + b) \div (2 * b)

\* page.tsx, the onProgress of the ChunkProcessor:
\*   setProgress(Math.round((processed / total) * 20))
\* (the callback of a processor that no page created leaves progress alone)
OnValidationProgress(processed, total) ==
    IF hpPc = "idle" THEN progress ELSE RoundDiv(processed * 20, total)

\* a faulty upload percentage, for comparison: the share taken of 100
OnUploadProgressOver(batch, total) == 40 + RoundDiv(batch * 100, total)

\* page.tsx, the onProgress of createCampaign:
\*   setProgress(40 + Math.round((batch / total) * 60))
OnUploadProgress(batch, total) ==
    IF hpPc = "idle" THEN progress ELSE 40 + RoundDiv(batch * 60, total)

\* a faulty count, for comparison: not clamped to the input length
ProcessedAfterUnclamped(i, chunkSize, total) == i + chunkSize

\* the rows covered after the chunk that starts at i:
\*   Math.min(i + chunkSize, data.length)
ProcessedAfter(i, chunkSize, total) == Min(i + chunkSize, total)

\* the processor callbacks of the model:
\*   "wrapped"  page.tsx: async (chunk) => [validateAndCleanData(chunk[0])]
\*   "direct"   validateAndCleanData applied to the chunk of rows itself
\*   "items"    (chunk) => chunk, one result per item
Processor(kind, chunk) ==
    IF kind = "wrapped"
    THEN << validateAndCleanData(chunk[1]) >>
    ELSE IF kind = "items"
    THEN chunk
    ELSE << validateAndCleanData(chunk) >>

\* the worker's chunk.map(item => ({...item, processed: true}))
WorkerProcessChunk(chunk) ==
    [k \in 1..Len(chunk) |-> [item |-> chunk[k], processed |-> TRUE]]

\* the number of iterations of for (i = 0; i < n; i += chunkSize)
NumChunks(n, chunkSize) == (n + chunkSize - 1) \div chunkSize

\* processData: the choice between the two paths
UsesWebWorker(options, data, workerApi) ==
    options.useWebWorker /\ Len(data) > LargeDatasetThreshold /\ workerApi

\* processData(data, processor)
CpProcessData ==
    /\ cpPc = "call"
    /\ IF UsesWebWorker(cpOptions, cpData, hasWorkerApi)
       THEN \* processWithWebWorker: create the worker, set the handlers, post
            /\ cpWorker' = "live"
            /\ wkInbox' = Append(wkInbox, [type |-> "process",
                                           chunkSize |-> cpOptions.chunkSize])
            /\ cpPc' = "worker"
       ELSE \* processInChunks: results = [], i = 0
            /\ cpPc' = "chunks"
            /\ UNCHANGED << cpWorker, wkInbox >>
    /\ cpI' = 0
    /\ cpResults' = << >>
    /\ UNCHANGED << cpOptions, hasWorkerApi, cpProcessor, cpData, cpProgress,
                    cpOutcome, wkPc, wkI, wkOutbox >>
    /\ UNCHANGED << otherVars, validateVars, uploadVars, pageVars, progress >>

\* processInChunks: one iteration up to the await of this.yield
CpChunk ==
    /\ cpPc = "chunks"
    /\ cpI < Len(cpData)
    /\ LET chunk == Slice(cpData, cpI, cpI + cpOptions.chunkSize)
           chunkResults == Processor(cpProcessor, chunk)
       IN  /\ cpResults' = cpResults \o chunkResults
           /\ cpProgress' =
                 IF cpOptions.onProgress
                 THEN Append(cpProgress,
                             << ProcessedAfter(cpI, cpOptions.chunkSize, Len(cpData)),
                                Len(cpData) >>)
                 ELSE cpProgress
           /\ progress' =
                 IF cpOptions.onProgress
                 THEN OnValidationProgress(ProcessedAfter(cpI, cpOptions.chunkSize,
                                                          Len(cpData)),
                                           Len(cpData))
                 ELSE progress
    /\ cpPc' = "yield"
    /\ UNCHANGED << cpOptions, hasWorkerApi, cpProcessor, cpData, cpI, cpWorker,
                    cpOutcome, wkPc, wkI, wkInbox, wkOutbox >>
    /\ UNCHANGED << otherVars, validateVars, uploadVars, pageVars >>

\* processInChunks: the timer of this.yield fires, i += chunkSize
CpYield ==
    /\ cpPc = "yield"
    /\ cpI' = cpI + cpOptions.chunkSize
    /\ cpPc' = "chunks"
    /\ UNCHANGED << cpOptions, hasWorkerApi, cpProcessor, cpData, cpResults,
                    cpProgress, cpWorker, cpOutcome, wkPc, wkI, wkInbox, wkOutbox >>
    /\ UNCHANGED << otherVars, validateVars, uploadVars, pageVars, progress >>

\* processInChunks: the loop ends, return results
CpChunksReturn ==
    /\ cpPc = "chunks"
    /\ cpI >= Len(cpData)
    /\ cpOutcome' = << [settled |-> "resolved", value |-> cpResults] >>
    /\ cpPc' = "done"
    /\ UNCHANGED << cpOptions, hasWorkerApi, cpProcessor, cpData, cpI, cpResults,
                    cpProgress, cpWorker, wkPc, wkI, wkInbox, wkOutbox >>
    /\ UNCHANGED << otherVars, validateVars, uploadVars, pageVars, progress >>

\* dataProcessor.js, self.onmessage: a 'process' message starts processData.
\* The worker works on its copy of the data, which equals cpData.
WkOnMessage ==
    /\ wkPc = "idle"
    /\ wkInbox # << >>
    /\ Head(wkInbox).type = "process"
    /\ wkInbox' = Tail(wkInbox)
    /\ wkI' = 0
    /\ wkPc' = "loop"
    /\ UNCHANGED << cpOptions, hasWorkerApi, cpProcessor, cpData, cpPc, cpI,
                    cpResults, cpProgress, cpWorker, cpOutcome, wkOutbox >>
    /\ UNCHANGED << otherVars, validateVars, uploadVars, pageVars, progress >>

\* dataProcessor.js, processData: one iteration, posting 'result' and 'progress'
WkChunk ==
    /\ wkPc = "loop"
    /\ cpWorker = "live"
    /\ wkI < Len(cpData)
    /\ LET chunk == Slice(cpData, wkI, wkI + cpOptions.chunkSize)
           processed == ProcessedAfter(wkI, cpOptions.chunkSize, Len(cpData))
       IN  wkOutbox' = wkOutbox \o
              << [type |-> "result", payload |-> WorkerProcessChunk(chunk)],
                 [type |-> "progress",
                  payload |-> [processed |-> processed, total |-> Len(cpData)]] >>
    /\ wkI' = wkI + cpOptions.chunkSize
    /\ UNCHANGED << cpOptions, hasWorkerApi, cpProcessor, cpData, cpPc, cpI,
                    cpResults, cpProgress, cpWorker, cpOutcome, wkPc, wkInbox >>
    /\ UNCHANGED << otherVars, validateVars, uploadVars, pageVars, progress >>

\* dataProcessor.js, processData: after the loop, post 'complete'
WkComplete ==
    /\ wkPc = "loop"
    /\ cpWorker = "live"
    /\ wkI >= Len(cpData)
    /\ wkOutbox' = Append(wkOutbox, [type |-> "complete"])
    /\ wkPc' = "finished"
    /\ UNCHANGED << cpOptions, hasWorkerApi, cpProcessor, cpData, cpPc, cpI,
                    cpResults, cpProgress, cpWorker, cpOutcome, wkI, wkInbox >>
    /\ UNCHANGED << otherVars, validateVars, uploadVars, pageVars, progress >>

\* settling a promise that is already settled changes nothing
Settle(outcome, with) == IF outcome = << >> THEN << with >> ELSE outcome

\* processWithWebWorker: this.worker.onmessage
CpOnMessage ==
    /\ cpWorker = "live"
    /\ wkOutbox # << >>
    /\ LET msg == Head(wkOutbox) IN
       /\ cpProgress' =
             IF msg.type = "progress" /\ cpOptions.onProgress
             THEN Append(cpProgress, << msg.payload.processed, msg.payload.total >>)
             ELSE cpProgress
       /\ progress' =
             IF msg.type = "progress" /\ cpOptions.onProgress
             THEN OnValidationProgress(msg.payload.processed, msg.payload.total)
             ELSE progress
       /\ cpResults' =
             IF msg.type = "result" THEN cpResults \o msg.payload ELSE cpResults
       /\ cpOutcome' =
             CASE msg.type = "complete" ->
                      Settle(cpOutcome, [settled |-> "resolved", value |-> cpResults])
               [] msg.type = "error" ->
                      Settle(cpOutcome, [settled |-> "rejected", value |-> msg.payload])
               [] OTHER -> cpOutcome
       /\ cpPc' = IF msg.type \in { "complete", "error" } /\ cpPc = "worker"
                  THEN "done" ELSE cpPc
    /\ wkOutbox' = Tail(wkOutbox)
    /\ UNCHANGED << cpOptions, hasWorkerApi, cpProcessor, cpData, cpI, cpWorker,
                    wkPc, wkI, wkInbox >>
    /\ UNCHANGED << otherVars, validateVars, uploadVars, pageVars >>

\* processWithWebWorker: this.worker.onerror (the worker script fails)
CpOnError ==
    /\ cpWorker = "live"
    /\ cpPc = "worker"
    /\ wkPc = "idle"
    /\ wkInbox # << >>
    /\ wkInbox' = << >>
    /\ cpOutcome' = Settle(cpOutcome, [settled |-> "rejected", value |-> "ErrorEvent"])
    /\ cpPc' = "done"
    /\ UNCHANGED << cpOptions, hasWorkerApi, cpProcessor, cpData, cpI, cpResults,
                    cpProgress, cpWorker, wkPc, wkI, wkOutbox >>
    /\ UNCHANGED << otherVars, validateVars, uploadVars, pageVars, progress >>

\* the rows of the chunking runs
ChunkRawRows ==
    { [phone |-> "212-555-0100", name |-> NameA, email |-> << >>],
      [phone |-> "(212) 555-0100", name |-> NameB, email |-> EmailGood],
      [phone |-> "+1 646 555 0199", name |-> NameA, email |-> EmailBad],
      [phone |-> "not-a-number", name |-> NameA, email |-> << >>] }

ChunkRowLists == { ExtractAll(rows) : rows \in SeqsUpTo(ChunkRawRows, MaxRows) }

\* the chunkSize options of the model: small ones, the default, and one chunk
\* for an array just over the threshold
ChunkSizes == (1..MaxChunkSize) \cup { DefaultChunkSize, LargeDatasetThreshold + 1 }

\* the calls of processData of the model: validateAndCleanData over the rows
\* themselves, the call of page.tsx (one element, the row list), and arrays
\* around the large-dataset threshold
InitChunkCall ==
    \/ \E rows \in ChunkRowLists :
          cpProcessor = "direct" /\ cpData = rows
    \/ \E rows \in ChunkRowLists :
          cpProcessor = "wrapped" /\ cpData = << rows >>
    \/ \E n \in { LargeDatasetThreshold, LargeDatasetThreshold + 1 } :
          cpProcessor = "wrapped" /\ cpData = [i \in 1..n |-> << >>]

InitChunk ==
    /\ OtherIdle
    /\ ValidateIdle
    /\ UploadIdle
    /\ PageIdle
    /\ InitChunkCall
    /\ \E size \in ChunkSizes, ww \in BOOLEAN, op \in BOOLEAN :
          /\ NumChunks(Len(cpData), size) <= MaxIterations
          /\ cpOptions = [chunkSize |-> size, useWebWorker |-> ww, onProgress |-> op]
    /\ hasWorkerApi \in BOOLEAN
    /\ cpPc = "call"
    /\ cpI = 0
    /\ cpResults = << >>
    /\ cpProgress = << >>
    /\ cpWorker = "null"
    /\ cpOutcome = << >>
    /\ wkPc = "idle"
    /\ wkI = 0
    /\ wkInbox = << >>
    /\ wkOutbox = << >>

NextChunk ==
    \/ CpProcessData
    \/ CpChunk
    \/ CpYield
    \/ CpChunksReturn
    \/ WkOnMessage
    \/ WkChunk
    \/ WkComplete
    \/ CpOnMessage
    \/ CpOnError

SpecChunk == InitChunk /\ [][NextChunk]_vars

(* ---------------------------------------------------------------------- *)
(* processInChunks with the chunk sizes the constructor takes              *)
(* ---------------------------------------------------------------------- *)

\* The constructor copies options.chunkSize as it is given: 0 is taken as
\* any other number.
AcceptedChunkSizes == 0..MaxChunkSize

\* Calls of processData that go to processInChunks, with a processor that
\* returns one result per item.  With chunkSize 0 and a progress callback the
\* list of the callback's calls would grow without end; such calls are
\* taken without the callback.
InitChunkSizes ==
    /\ OtherIdle
    /\ ValidateIdle
    /\ UploadIdle
    /\ PageIdle
    /\ cpProcessor = "items"
    /\ cpData \in ChunkRowLists
    /\ \E size \in AcceptedChunkSizes :
       \E op \in IF size = 0 THEN { FALSE } ELSE BOOLEAN :
          cpOptions = [chunkSize |-> size, useWebWorker |-> FALSE, onProgress |-> op]
    /\ hasWorkerApi \in BOOLEAN
    /\ cpPc = "call"
    /\ cpI = 0
    /\ cpResults = << >>
    /\ cpProgress = << >>
    /\ cpWorker = "null"
    /\ cpOutcome = << >>
    /\ wkPc = "idle"
    /\ wkI = 0
    /\ wkInbox = << >>
    /\ wkOutbox = << >>

NextChunkSizes ==
    \/ CpProcessData
    \/ CpChunk
    \/ CpYield
    \/ CpChunksReturn

\* The awaited processor result and the timer of this.yield are delivered by
\* the event loop: a step that can be taken is taken.
SpecChunkSizes ==
    InitChunkSizes /\ [][NextChunkSizes]_vars /\ WF_vars(NextChunkSizes)


(* ---------------------------------------------------------------------- *)
(* lib/vapiClient.ts: VapiClient.createCampaign                            *)
(* ---------------------------------------------------------------------- *)

\* a faulty createBatches, for comparison: each slice ends one element early
RECURSIVE createBatchesShort(_, _, _)
createBatchesShort(array, batchSize, i) ==
    IF i >= Len(array) THEN << >>
    ELSE << Slice(array, i, i + batchSize - 1) >>
            \o createBatchesShort(array, batchSize, i + batchSize)

\* createBatches: for (i = 0; i < array.length; i += batchSize)
\*                    batches.push(array.slice(i, i + batchSize)), from i on
RECURSIVE createBatches(_, _, _)
createBatches(array, batchSize, i) ==
    IF i >= Len(array) THEN << >>
    ELSE << Slice(array, i, i + batchSize) >>
            \o createBatches(array, batchSize, i + batchSize)

\* batches[i] (0-based): << the batch >>, or << >> for undefined
BatchAt(batches, i) == IF i < Len(batches) THEN << batches[i + 1] >> ELSE << >>

\* campaignBody: name, customers, the resource selector, the phone number
CampaignBody(args, batches) ==
    [customers |-> BatchAt(batches, 0),
     assistantId |-> args.assistantId,
     workflowId |-> IF args.assistantId # "" THEN "" ELSE args.workflowId,
     phoneNumberId |-> args.phoneNumberId]

\* a faulty append endpoint, for comparison: always the same campaign
AppendTargetFixed(campaignId) == "cmp-1"

\* the campaign of `campaign/${campaignId}/customers`
AppendTarget(campaignId) == campaignId

\* a faulty Batch Result, for comparison: numbered from the loop variable
BatchResultZeroBased(i, ok, batch) ==
    [batchNumber |-> i, success |-> ok, leadsProcessed |-> Len(batch),
     error |-> IF ~ok THEN "Failed to add batch" ELSE "undefined"]

\* the Batch Result pushed after the response of batch i (0-based)
BatchResult(i, ok, batch) ==
    [batchNumber |-> i + 1, success |-> ok, leadsProcessed |-> Len(batch),
     error |-> IF ~ok THEN "Failed to add batch" ELSE "undefined"]

\* the return value after the loop
UcSuccess(campaignId, leads, batchResults) ==
    [success |-> TRUE, campaignId |-> campaignId,
     details |-> [totalLeads |-> Len(leads), batches |-> batchResults]]

\* the return value of the failure paths
UcFailure(message) == [success |-> FALSE, error |-> message]

\* The head of the loop for (let i = 1; i < batches.length; i++) with loop
\* variable i: either the call of onProgress and the start of the delay, or
\* the return after the loop.
UcLoop(i, campaignId, batchResults, events) ==
    /\ ucI' = i
    /\ ucCampaignId' = << campaignId >>
    /\ ucBatchResults' = batchResults
    /\ IF i < Len(ucBatches)
       THEN /\ ucEvents' = events
                 \o (IF ucArgs.onProgress
                     THEN << [type |-> "progress", batchNumber |-> i + 1,
                              totalBatches |-> Len(ucBatches)] >>
                     ELSE << >>)
                 \o << [type |-> "delay", batch |-> i] >>
            /\ progress' = IF ucArgs.onProgress
                           THEN OnUploadProgress(i + 1, Len(ucBatches))
                           ELSE progress
            /\ ucPc' = "delay"
            /\ ucReturn' = ucReturn
       ELSE /\ ucEvents' = events
            /\ progress' = progress
            /\ ucPc' = "done"
            /\ ucReturn' = << UcSuccess(campaignId, ucArgs.leads, batchResults) >>

\* createCampaign up to the first await: the batches, the body, the request
UcStart ==
    /\ ucPc = "call"
    /\ LET batches == createBatches(ucArgs.leads, BatchSize, 0)
           request == [endpoint |-> "campaign", batch |-> 0,
                       body |-> CampaignBody(ucArgs, batches)]
       IN  /\ ucBatches' = batches
           /\ netInFlight' = Append(netInFlight, request)
           /\ ucEvents' = Append(ucEvents, [type |-> "request", request |-> request])
    /\ ucBatchResults' = << >>
    /\ ucPc' = "awaitCreate"
    /\ UNCHANGED << ucArgs, ucI, ucCampaignId, ucReturn, remoteCampaigns >>
    /\ UNCHANGED << otherVars, validateVars, chunkVars, pageVars, progress >>

CampaignIds == { "cmp-1", "cmp-2" }

\* the creation request is answered with a success status and { id }
UcCreateOk ==
    /\ ucPc = "awaitCreate"
    /\ netInFlight # << >>
    /\ \E id \in CampaignIds :
          /\ remoteCampaigns' = remoteCampaigns \cup { id }
          /\ UcLoop(1, id, ucBatchResults,
                    Append(ucEvents, [type |-> "response", batch |-> 0, ok |-> TRUE,
                                      id |-> id]))
    /\ netInFlight' = Tail(netInFlight)
    /\ UNCHANGED << ucArgs, ucBatches >>
    /\ UNCHANGED << otherVars, validateVars, chunkVars, pageVars >>

\* the messages an error body may carry: error.message, "" when it has none
ServerMessages == { "", "Bad Request" }

\* a faulty error text, for comparison: the message of the body as it is
CreateErrorTextRaw(message) == message

\* error.message || 'Failed to create campaign'
CreateErrorText(message) ==
    IF message # "" THEN message ELSE "Failed to create campaign"

\* the creation request is answered with a non-success status
UcCreateFail ==
    /\ ucPc = "awaitCreate"
    /\ netInFlight # << >>
    /\ \E message \in ServerMessages :
          /\ ucReturn' = << UcFailure(CreateErrorText(message)) >>
          /\ ucEvents' = Append(ucEvents, [type |-> "response", batch |-> 0,
                                           ok |-> FALSE, message |-> message])
    /\ netInFlight' = Tail(netInFlight)
    /\ ucPc' = "done"
    /\ UNCHANGED << ucArgs, ucBatches, ucI, ucCampaignId, ucBatchResults,
                    remoteCampaigns >>
    /\ UNCHANGED << otherVars, validateVars, chunkVars, pageVars, progress >>

\* fetch rejects (a transport failure): the catch block of createCampaign
UcFetchRejects ==
    /\ ucPc \in { "awaitCreate", "awaitAppend" }
    /\ netInFlight # << >>
    /\ ucReturn' = << UcFailure("Failed to fetch") >>
    /\ ucEvents' = Append(ucEvents, [type |-> "rejected", batch |-> Head(netInFlight).batch])
    /\ netInFlight' = Tail(netInFlight)
    /\ ucPc' = "done"
    /\ UNCHANGED << ucArgs, ucBatches, ucI, ucCampaignId, ucBatchResults,
                    remoteCampaigns >>
    /\ UNCHANGED << otherVars, validateVars, chunkVars, pageVars, progress >>

\* the timer of this.delay(2000) fires: the append request of batch i is sent
UcDelayDone ==
    /\ ucPc = "delay"
    /\ LET request == [endpoint |-> "campaign/id/customers",
                       campaign |-> AppendTarget(ucCampaignId[1]),
                       batch |-> ucI,
                       body |-> [customers |-> BatchAt(ucBatches, ucI)]]
       IN  /\ netInFlight' = Append(netInFlight, request)
           /\ ucEvents' = Append(ucEvents, [type |-> "request", request |-> request])
    /\ ucPc' = "awaitAppend"
    /\ UNCHANGED << ucArgs, ucBatches, ucI, ucCampaignId, ucBatchResults, ucReturn,
                    remoteCampaigns >>
    /\ UNCHANGED << otherVars, validateVars, chunkVars, pageVars, progress >>

\* the append request is answered (any status): the Batch Result, i++, the loop
UcAppendResponse ==
    /\ ucPc = "awaitAppend"
    /\ netInFlight # << >>
    /\ \E ok \in BOOLEAN :
          UcLoop(ucI + 1, ucCampaignId[1],
                 Append(ucBatchResults, BatchResult(ucI, ok, ucBatches[ucI + 1])),
                 Append(ucEvents, [type |-> "response", batch |-> ucI, ok |-> ok]))
    /\ netInFlight' = Tail(netInFlight)
    /\ UNCHANGED << ucArgs, ucBatches, remoteCampaigns >>
    /\ UNCHANGED << otherVars, validateVars, chunkVars, pageVars >>

\* the lead lists of the model: n leads, told apart by their position
LeadCounts ==
    { k * BatchSize + r : k \in 0..MaxFullBatches, r \in { 0, 1, BatchSize \div 2 } }

\* the resource selections of the model
Selections ==
    { [assistantId |-> "asst-1", workflowId |-> "", phoneNumberId |-> "pn-1"],
      [assistantId |-> "", workflowId |-> "wf-1", phoneNumberId |-> ""],
      [assistantId |-> "", workflowId |-> "", phoneNumberId |-> ""] }

InitUpload ==
    /\ OtherIdle
    /\ ValidateIdle
    /\ ChunkIdle
    /\ hasWorkerApi = FALSE
    /\ PageIdle
    /\ \E n \in LeadCounts, sel \in Selections, op \in BOOLEAN :
          ucArgs = [leads |-> [k \in 1..n |-> k], assistantId |-> sel.assistantId,
                    workflowId |-> sel.workflowId,
                    phoneNumberId |-> sel.phoneNumberId, onProgress |-> op]
    /\ ucPc = "call"
    /\ ucBatches = << >>
    /\ ucI = 0
    /\ ucCampaignId = << >>
    /\ ucBatchResults = << >>
    /\ ucEvents = << >>
    /\ ucReturn = << >>
    /\ netInFlight = << >>
    /\ remoteCampaigns = {}

NextUpload ==
    \/ UcStart
    \/ UcCreateOk
    \/ UcCreateFail
    \/ UcFetchRejects
    \/ UcDelayDone
    \/ UcAppendResponse

SpecUpload == InitUpload /\ [][NextUpload]_vars


(* ---------------------------------------------------------------------- *)
(* app/page.tsx: alerts                                                    *)
(* ---------------------------------------------------------------------- *)

\* showAlert(type, ...): the alert shown, and the auto-hide timer of a success
ShowAlert(type) ==
    /\ alert' = type
    /\ alertTimers' = IF type = "success" THEN alertTimers + 1 ELSE alertTimers

(* ---------------------------------------------------------------------- *)
(* app/page.tsx: the form of the 'input' state                             *)
(* ---------------------------------------------------------------------- *)

\* a key in the UUID format, and a key that is not
UuidKey == "a9bab1b8-c325-4705-bc57-9a07259f8129"
OtherKey == "sk_live_0123456789"

\* what the user can have in the API key input
Keys == { "", UuidKey, OtherKey }

\* the characters of a key
KeyChars(key) ==
    CASE key = UuidKey ->
             << "a", "9", "b", "a", "b", "1", "b", "8", "-", "c", "3", "2",
                "5", "-", "4", "7", "0", "5", "-", "b", "c", "5", "7", "-",
                "9", "a", "0", "7", "2", "5", "9", "f", "8", "1", "2", "9" >>
      [] key = OtherKey ->
             << "s", "k", "_", "l", "i", "v", "e", "_", "0", "1", "2", "3",
                "4", "5", "6", "7", "8", "9" >>
      [] OTHER -> << >>

\* the characters of [0-9a-f] under the flag i
HexDigits ==
    Digits \cup { "a", "b", "c", "d", "e", "f", "A", "B", "C", "D", "E", "F" }

IsHexDigit(c) == c \in HexDigits

\* uuidRegex.test(apiKey) of validateApiKey:
\* /^[0-9a-f]{8}-[0-9a-f]{4}-[0-9a-f]{4}-[0-9a-f]{4}-[0-9a-f]{12}$/i
uuidRegexTest(key) ==
    LET c == KeyChars(key) IN
    /\ Len(c) = 36
    /\ \A i \in 1..36 :
          IF i \in { 9, 14, 19, 24 } THEN c[i] = "-" ELSE IsHexDigit(c[i])

\* String.prototype.startsWith
startsWith(str, searchString) ==
    /\ Len(str) >= Len(searchString)
    /\ SubSeq(str, 1, Len(searchString)) = searchString

\* app/api/validate-key/route.ts, POST: the status and the valid field of
\* its answer
ValidateKeyRoute(key) ==
    IF ~startsWith(KeyChars(key), << "s", "k", "_" >>)
    THEN [status |-> 400, valid |-> FALSE]
    ELSE [status |-> 200, valid |-> TRUE]

\* VapiClient.validateApiKey when the endpoint answers: data.valid === true
ClientValidateApiKey(key) == ValidateKeyRoute(key).valid = TRUE

\* what the user can have in the campaign name input
CampaignNames == { "", "Q1 Outreach Campaign" }

\* the files of the form, parsed: one row each, a good one or a bad one
PageFiles ==
    { << [phone |-> "(212) 555-0100", name |-> NameB, email |-> EmailGood] >>,
      << [phone |-> "not-a-number", name |-> NameA, email |-> << >>] >> }

\* what the three resource requests can bring: nothing, everything, or
\* everything but phone numbers
ResourceSets ==
    { [assistants |-> a, workflows |-> a, phoneNumbers |-> pn] :
          a \in BOOLEAN, pn \in BOOLEAN }

\* the user puts the focus on the API key input
PgKeyFocus ==
    /\ appState = "input"
    /\ ~keyFocused
    /\ blurCall = "idle"
    /\ keyFocused' = TRUE
    /\ UNCHANGED << apiKey, apiKeyValid, campaignName, file, parsePending, resources,
                    loadingResources, blurCall, hsCall >>
    /\ UNCHANGED << appState, isProcessing, alert, alertTimers, pgResult, columnMapping,
                    parsedRows, selected, hpPc, hpValidation, hpProcessor, progress >>
    /\ UNCHANGED << otherVars, validateVars, chunkVars, uploadVars >>

\* the input's onChange: setApiKey(e.target.value); setApiKeyValid(null)
PgKeyChange ==
    /\ appState = "input"
    /\ keyFocused
    /\ \E key \in Keys \ { apiKey } : apiKey' = key
    /\ apiKeyValid' = "null"
    /\ UNCHANGED << keyFocused, campaignName, file, parsePending, resources,
                    loadingResources, blurCall, hsCall >>
    /\ UNCHANGED << appState, isProcessing, alert, alertTimers, pgResult, columnMapping,
                    parsedRows, selected, hpPc, hpValidation, hpProcessor, progress >>
    /\ UNCHANGED << otherVars, validateVars, chunkVars, uploadVars >>

\* the input's onBlur: validateApiKey up to its first await
PgKeyBlur ==
    /\ appState = "input"
    /\ keyFocused
    /\ keyFocused' = FALSE
    /\ IF ~uuidRegexTest(apiKey)
       THEN /\ apiKeyValid' = "false"
            /\ ShowAlert("error")
            /\ UNCHANGED blurCall
       ELSE /\ blurCall' = "validate"
            /\ UNCHANGED << apiKeyValid, alert, alertTimers >>
    /\ UNCHANGED << apiKey, campaignName, file, parsePending, resources,
                    loadingResources, hsCall >>
    /\ UNCHANGED << appState, isProcessing, pgResult, columnMapping, parsedRows,
                    selected, hpPc, hpValidation, hpProcessor, progress >>
    /\ UNCHANGED << otherVars, validateVars, chunkVars, uploadVars >>

\* validateApiKey after client.validateApiKey() settled with isValid, up to
\* the await of the resource requests or to its return
ValidateKeyAnswered(isValid) ==
    IF isValid
    THEN /\ alertTimers < MaxAlertTimers
         /\ apiKeyValid' = "true"
         /\ loadingResources' = TRUE
         /\ alert' = "info"
         /\ alertTimers' = alertTimers + 1
    ELSE /\ apiKeyValid' = "false"
         /\ ShowAlert("error")
         /\ UNCHANGED loadingResources

\* the alert validateApiKey shows for the resources it fetched
ResourcesAlert(fetched) ==
    IF (fetched.assistants \/ fetched.workflows) /\ fetched.phoneNumbers
    THEN "success" ELSE "error"

\* validateApiKey of onBlur: the key check is answered with isValid
VkBlurAnswer(isValid) ==
    /\ blurCall = "validate"
    /\ ValidateKeyAnswered(isValid)
    /\ blurCall' = IF isValid THEN "resources" ELSE "idle"
    /\ UNCHANGED << apiKey, keyFocused, campaignName, file, parsePending, resources,
                    hsCall >>
    /\ UNCHANGED << appState, isProcessing, pgResult, columnMapping, parsedRows,
                    selected, hpPc, hpValidation, hpProcessor, progress >>
    /\ UNCHANGED << otherVars, validateVars, chunkVars, uploadVars >>

\* the key check answers as its server makes it answer
VkBlurAnswered == \E isValid \in BOOLEAN : VkBlurAnswer(isValid)

\* the keys a validateApiKey call can have sent: those that pass its check
KeysSent == { key \in Keys : uuidRegexTest(key) }

\* the key check is answered by app/api/validate-key/route.ts
VkBlurAnsweredByRoute ==
    \E key \in KeysSent : VkBlurAnswer(ClientValidateApiKey(key))

\* validateApiKey of onBlur: the three resource requests are answered
VkBlurResources ==
    /\ blurCall = "resources"
    /\ alertTimers < MaxAlertTimers
    /\ \E fetched \in ResourceSets :
          /\ resources' = fetched
          /\ ShowAlert(ResourcesAlert(fetched))
    /\ loadingResources' = FALSE
    /\ blurCall' = "idle"
    /\ UNCHANGED << apiKey, apiKeyValid, keyFocused, campaignName, file, parsePending,
                    hsCall >>
    /\ UNCHANGED << appState, isProcessing, pgResult, columnMapping, parsedRows,
                    selected, hpPc, hpValidation, hpProcessor, progress >>
    /\ UNCHANGED << otherVars, validateVars, chunkVars, uploadVars >>

\* the campaign name input's onChange
PgNameChange ==
    /\ appState = "input"
    /\ ~keyFocused
    /\ \E name \in CampaignNames \ { campaignName } : campaignName' = name
    /\ UNCHANGED << apiKey, apiKeyValid, keyFocused, file, parsePending, resources,
                    loadingResources, blurCall, hsCall >>
    /\ UNCHANGED << appState, isProcessing, alert, alertTimers, pgResult, columnMapping,
                    parsedRows, selected, hpPc, hpValidation, hpProcessor, progress >>
    /\ UNCHANGED << otherVars, validateVars, chunkVars, uploadVars >>

\* the resource selection section is rendered
SelectionShown ==
    /\ appState = "input"
    /\ apiKeyValid = "true"
    /\ resources.assistants \/ resources.workflows

\* the RadioGroup's onValueChange: setSelectedType(value); setSelectedId('');
\* the item of a type without resources is disabled
PgTypeChange ==
    /\ SelectionShown
    /\ ~keyFocused
    /\ \E type \in { "assistant", "workflow" } \ { selected.type } :
          /\ IF type = "assistant" THEN resources.assistants ELSE resources.workflows
          /\ selected' = [selected EXCEPT !.type = type, !.id = ""]
    /\ UNCHANGED << formVars, otherVars, validateVars, chunkVars, uploadVars >>
    /\ UNCHANGED << appState, isProcessing, alert, alertTimers, pgResult, columnMapping,
                    parsedRows, hpPc, hpValidation, hpProcessor, progress >>

\* the Select of the assistant or workflow: onValueChange={setSelectedId}
PgSelectId ==
    /\ SelectionShown
    /\ ~keyFocused
    /\ IF selected.type = "assistant" THEN resources.assistants ELSE resources.workflows
    /\ selected.id = ""
    /\ selected' = [selected EXCEPT !.id = "res-1"]
    /\ UNCHANGED << formVars, otherVars, validateVars, chunkVars, uploadVars >>
    /\ UNCHANGED << appState, isProcessing, alert, alertTimers, pgResult, columnMapping,
                    parsedRows, hpPc, hpValidation, hpProcessor, progress >>

\* the Select of the phone number: onValueChange={setSelectedPhoneNumberId}
PgSelectPhoneNumber ==
    /\ appState = "input"
    /\ apiKeyValid = "true"
    /\ resources.phoneNumbers
    /\ ~keyFocused
    /\ selected.phoneNumberId = ""
    /\ selected' = [selected EXCEPT !.phoneNumberId = "pn-1"]
    /\ UNCHANGED << formVars, otherVars, validateVars, chunkVars, uploadVars >>
    /\ UNCHANGED << appState, isProcessing, alert, alertTimers, pgResult, columnMapping,
                    parsedRows, hpPc, hpValidation, hpProcessor, progress >>

\* handleFileSelect up to the await of parseFile
PgFileSelect ==
    /\ appState = "input"
    /\ ~keyFocused
    /\ ~parsePending
    /\ file' = TRUE
    /\ alert' = "info"
    /\ parsePending' = TRUE
    /\ UNCHANGED << apiKey, apiKeyValid, keyFocused, campaignName, resources,
                    loadingResources, blurCall, hsCall >>
    /\ UNCHANGED << appState, isProcessing, alertTimers, pgResult, columnMapping,
                    parsedRows, selected, hpPc, hpValidation, hpProcessor, progress >>
    /\ UNCHANGED << otherVars, validateVars, chunkVars, uploadVars >>

\* handleFileSelect after parseFile settled: the rows it read, or its catch
PgFileParsed ==
    /\ parsePending
    /\ parsePending' = FALSE
    /\ \/ /\ alertTimers < MaxAlertTimers
          /\ \E rows \in PageFiles : parsedRows' = rows
          /\ ShowAlert("success")
          /\ UNCHANGED file
       \/ /\ ShowAlert("error")
          /\ file' = FALSE
          /\ parsedRows' = << >>
    /\ UNCHANGED << apiKey, apiKeyValid, keyFocused, campaignName, resources,
                    loadingResources, blurCall, hsCall >>
    /\ UNCHANGED << appState, isProcessing, pgResult, columnMapping, selected, hpPc,
                    hpValidation, hpProcessor, progress >>
    /\ UNCHANGED << otherVars, validateVars, chunkVars, uploadVars >>

\* the disabled attribute of the button that calls handleStartProcessing
StartDisabled ==
    \/ apiKey = ""
    \/ campaignName = ""
    \/ ~file
    \/ isProcessing
    \/ loadingResources
    \/ apiKeyValid = "true" /\ (selected.id = "" \/ selected.phoneNumberId = "")

\* handleStartProcessing up to the first await of its validateApiKey call,
\* or to its return when it ends before
HsStart ==
    /\ appState = "input"
    /\ ~keyFocused
    /\ ~StartDisabled
    /\ hsCall = << >>
    /\ IF apiKey = "" \/ campaignName = "" \/ ~file
       THEN /\ ShowAlert("warning")
            /\ UNCHANGED << isProcessing, apiKeyValid, hsCall >>
       ELSE IF apiKeyValid = "true" /\ selected.id = ""
       THEN /\ ShowAlert("warning")
            /\ UNCHANGED << isProcessing, apiKeyValid, hsCall >>
       ELSE IF apiKeyValid = "true" /\ selected.phoneNumberId = ""
       THEN /\ ShowAlert("warning")
            /\ UNCHANGED << isProcessing, apiKeyValid, hsCall >>
       ELSE IF ~uuidRegexTest(apiKey)
       THEN /\ apiKeyValid' = "false"
            /\ ShowAlert("error")
            /\ UNCHANGED << isProcessing, hsCall >>
       ELSE /\ isProcessing' = TRUE
            /\ ShowAlert("info")
            /\ hsCall' = << [pc |-> "validate", parsedData |-> parsedRows # << >>] >>
            /\ UNCHANGED apiKeyValid
    /\ UNCHANGED << apiKey, keyFocused, campaignName, file, parsePending, resources,
                    loadingResources, blurCall >>
    /\ UNCHANGED << appState, pgResult, columnMapping, parsedRows, selected, hpPc,
                    hpValidation, hpProcessor, progress >>
    /\ UNCHANGED << otherVars, validateVars, chunkVars, uploadVars >>

\* handleStartProcessing: the key check of its validateApiKey call is
\* answered with isValid
HsAnswer(isValid) ==
    /\ hsCall # << >>
    /\ hsCall[1].pc = "validate"
    /\ ValidateKeyAnswered(isValid)
    /\ IF isValid
       THEN /\ hsCall' = << [hsCall[1] EXCEPT !.pc = "resources"] >>
            /\ UNCHANGED isProcessing
       ELSE /\ hsCall' = << >>
            /\ isProcessing' = FALSE
    /\ UNCHANGED << apiKey, keyFocused, campaignName, file, parsePending, resources,
                    blurCall >>
    /\ UNCHANGED << appState, pgResult, columnMapping, parsedRows, selected, hpPc,
                    hpValidation, hpProcessor, progress >>
    /\ UNCHANGED << otherVars, validateVars, chunkVars, uploadVars >>

HsAnswered == \E isValid \in BOOLEAN : HsAnswer(isValid)

\* the key check is answered by app/api/validate-key/route.ts
HsAnsweredByRoute ==
    \E key \in KeysSent : HsAnswer(ClientValidateApiKey(key))

\* handleStartProcessing: the resource requests of its validateApiKey call
\* are answered, validateApiKey returns true, and the handler runs to its end
\* with the parsedData of the render in which the button was clicked
HsResources ==
    /\ hsCall # << >>
    /\ hsCall[1].pc = "resources"
    /\ alertTimers + 2 <= MaxAlertTimers
    /\ \E fetched \in ResourceSets :
          /\ resources' = fetched
          /\ alertTimers' = alertTimers
                            + (IF ResourcesAlert(fetched) = "success" THEN 1 ELSE 0)
                            + (IF hsCall[1].parsedData THEN 1 ELSE 0)
    /\ loadingResources' = FALSE
    /\ IF ~hsCall[1].parsedData
       THEN /\ alert' = "warning"
            /\ UNCHANGED appState
       ELSE /\ alert' = "success"
            /\ appState' = "mapping"
    /\ isProcessing' = FALSE
    /\ hsCall' = << >>
    /\ UNCHANGED << apiKey, apiKeyValid, keyFocused, campaignName, file, parsePending,
                    blurCall >>
    /\ UNCHANGED << pgResult, columnMapping, parsedRows, selected, hpPc, hpValidation,
                    hpProcessor, progress >>
    /\ UNCHANGED << otherVars, validateVars, chunkVars, uploadVars >>

\* the form when handleStartProcessing has set the 'mapping' state: the key
\* was found valid and the resources were loaded
FormAtMapping ==
    /\ apiKey = UuidKey
    /\ apiKeyValid = "true"
    /\ keyFocused = FALSE
    /\ campaignName = "Q1 Outreach Campaign"
    /\ file = TRUE
    /\ parsePending = FALSE
    /\ resources = [assistants |-> TRUE, workflows |-> TRUE, phoneNumbers |-> TRUE]
    /\ loadingResources = FALSE
    /\ blurCall = "idle"
    /\ hsCall = << >>

(* ---------------------------------------------------------------------- *)
(* app/page.tsx: the pipeline run, handleProcessData                       *)
(* ---------------------------------------------------------------------- *)

\* the timer of a success alert fires: setAlert(null)
PgAlertTimer ==
    /\ alertTimers > 0
    /\ alertTimers' = alertTimers - 1
    /\ alert' = "none"
    /\ UNCHANGED << appState, isProcessing, pgResult, columnMapping, parsedRows,
                    selected, hpPc, hpValidation, hpProcessor, progress >>
    /\ UNCHANGED << formVars, otherVars, validateVars, chunkVars, uploadVars >>

\* the column selections FieldMapper can report
Mappings == [phoneColumn : { "", "phone" }, nameColumn : { "", "name" },
             emailColumn : { "", "email" }]

\* the mapping section is rendered: appState === 'mapping' && parsedData
MappingShown == appState = "mapping" /\ parsedRows # << >>

\* FieldMapper, onMappingChange={setColumnMapping}
PgMappingChange ==
    /\ MappingShown
    /\ hpPc = "idle"
    /\ \E m \in Mappings : columnMapping' = << m >>
    /\ UNCHANGED << appState, isProcessing, alert, alertTimers, pgResult, parsedRows,
                    selected, hpPc, hpValidation, hpProcessor, progress >>
    /\ UNCHANGED << formVars, otherVars, validateVars, chunkVars, uploadVars >>

HasPhoneColumn == columnMapping # << >> /\ columnMapping[1].phoneColumn # ""

\* the mapping a handler reads: columnMapping, all columns "" for null
MappingRead ==
    IF columnMapping = << >>
    THEN [phoneColumn |-> "", nameColumn |-> "", emailColumn |-> ""]
    ELSE columnMapping[1]

\* handleProcessData from setAppState('processing') to the await of
\* processor.processData
HpBegin ==
    /\ appState' = "processing"
    /\ isProcessing' = TRUE
    /\ alert' = "none"
    /\ alertTimers' = alertTimers
    /\ hpProcessor' = "created"
    /\ cpOptions' = [chunkSize |-> 1000,
                     useWebWorker |-> Len(parsedRows) > 10000,
                     onProgress |-> TRUE]
    /\ cpProcessor' = "wrapped"
    /\ cpData' = << extractDataByColumns(parsedRows,
                                         MappingRead.phoneColumn,
                                         MappingRead.nameColumn,
                                         MappingRead.emailColumn) >>
    /\ progress' = 20
    /\ cpPc' = "call"
    /\ hpPc' = "validating"
    /\ UNCHANGED << hasWorkerApi, cpI, cpResults, cpProgress, cpWorker,
                    cpOutcome, wkPc, wkI, wkInbox, wkOutbox >>

\* a faulty handler, for comparison: it starts without looking at the mapping
handleProcessDataUnchecked ==
    /\ HpBegin
    /\ UNCHANGED << pgResult, columnMapping, parsedRows, selected, hpValidation >>
    /\ UNCHANGED << formVars, otherVars, validateVars, uploadVars >>

\* handleProcessData up to the await of processor.processData, or to its
\* return when no phone column is selected
handleProcessData ==
    /\ IF ~HasPhoneColumn
       THEN /\ ShowAlert("warning")
            /\ UNCHANGED << appState, isProcessing, hpPc, hpProcessor, progress,
                            chunkVars >>
       ELSE HpBegin
    /\ UNCHANGED << pgResult, columnMapping, parsedRows, selected, hpValidation >>
    /\ UNCHANGED << formVars, otherVars, validateVars, uploadVars >>

\* a click on the button that calls handleProcessData: it is rendered in the
\* 'mapping' state and is disabled while no phone column is selected
HpProcess ==
    /\ MappingShown
    /\ hpPc = "idle"
    /\ HasPhoneColumn
    /\ handleProcessData

\* handleProcessData called whatever the mapping is
HpCall ==
    /\ MappingShown
    /\ hpPc = "idle"
    /\ handleProcessData

\* the catch and finally blocks of handleProcessData
HpCatch ==
    /\ ShowAlert("error")
    /\ appState' = "input"
    /\ isProcessing' = FALSE
    /\ hpPc' = "done"

\* the arguments of client.createCampaign(campaignName, validation.valid,
\*   selectedType === 'assistant' ? selectedId : undefined,
\*   selectedType === 'workflow' ? selectedId : undefined,
\*   selectedPhoneNumberId, (batch, total) => ...)
CreateCampaignArgs(validation, sel) ==
    [leads |-> validation.valid,
     assistantId |-> IF sel.type = "assistant" THEN sel.id ELSE "",
     workflowId |-> IF sel.type = "workflow" THEN sel.id ELSE "",
     phoneNumberId |-> sel.phoneNumberId,
     onProgress |-> TRUE]

\* handleProcessData after processData settled, up to the await of createCampaign
HpValidated ==
    /\ hpPc = "validating"
    /\ cpPc = "done"
    /\ IF cpOutcome[1].settled = "resolved"
       THEN LET validation == cpOutcome[1].value[1] IN
            /\ hpValidation' = << validation >>
            /\ progress' = 40
            /\ ucArgs' = CreateCampaignArgs(validation, selected)
            /\ ucPc' = "call"
            /\ hpPc' = "uploading"
            /\ UNCHANGED << appState, isProcessing, alert, alertTimers >>
       ELSE /\ HpCatch
            /\ UNCHANGED << hpValidation, progress, ucArgs, ucPc >>
    /\ UNCHANGED << pgResult, columnMapping, parsedRows, selected, hpProcessor >>
    /\ UNCHANGED << ucBatches, ucI, ucCampaignId, ucBatchResults, ucEvents, ucReturn,
                    netInFlight, remoteCampaigns >>
    /\ UNCHANGED << formVars, otherVars, validateVars, chunkVars >>

\* ChunkProcessor.destroy: this.worker after the call
DestroyedWorker(worker) == "null"

\* handleProcessData after createCampaign returned
HpCampaignReturned ==
    /\ hpPc = "uploading"
    /\ ucPc = "done"
    /\ IF ucReturn[1].success
       THEN /\ progress' = 100
            /\ pgResult' = << [success |-> TRUE,
                               campaignId |-> ucReturn[1].campaignId,
                               summary |-> hpValidation[1].summary,
                               errors |-> hpValidation[1].invalid] >>
            /\ hpProcessor' = "destroyed"
            /\ cpWorker' = DestroyedWorker(cpWorker)
            /\ appState' = "complete"
            /\ ShowAlert("success")
            /\ isProcessing' = FALSE
            /\ hpPc' = "done"
       ELSE /\ HpCatch
            /\ UNCHANGED << progress, pgResult, hpProcessor, cpWorker >>
    /\ UNCHANGED << columnMapping, parsedRows, selected, hpValidation >>
    /\ UNCHANGED << cpOptions, hasWorkerApi, cpProcessor, cpData, cpPc, cpI, cpResults,
                    cpProgress, cpOutcome, wkPc, wkI, wkInbox, wkOutbox >>
    /\ UNCHANGED << formVars, otherVars, validateVars, uploadVars >>

\* a file of one row more than the large-dataset threshold, every cell empty
LargeFile ==
    [i \in 1..(LargeDatasetThreshold + 1) |->
        [phone |-> "", name |-> << >>, email |-> << >>]]

\* The page when the column mapping is shown: handleStartProcessing has just
\* shown the success alert 'Ready to map columns' and set the 'mapping'
\* state; parsedData holds the rows of the file.
Init ==
    /\ OtherIdle
    /\ ValidateIdle
    /\ ChunkIdle
    /\ UploadIdle
    /\ FormAtMapping
    /\ appState = "mapping"
    /\ isProcessing = FALSE
    /\ alert = "success"
    /\ alertTimers = 1
    /\ pgResult = << >>
    /\ columnMapping = << >>
    /\ \/ /\ parsedRows \in SeqsUpTo(ChunkRawRows, MaxRows) \ { << >> }
          /\ selected \in [type : { "assistant", "workflow" }, id : { "", "res-1" },
                           phoneNumberId : { "", "pn-1" }]
          /\ hasWorkerApi = TRUE
       \/ /\ parsedRows = LargeFile
          /\ selected = [type |-> "assistant", id |-> "res-1", phoneNumberId |-> "pn-1"]
          /\ hasWorkerApi \in BOOLEAN
    /\ hpPc = "idle"
    /\ hpValidation = << >>
    /\ hpProcessor = "none"
    /\ progress = 0

\* A file of at most MaxRows rows gives at most MaxRows leads, which is one
\* batch: createCampaign never reaches its append loop here, so the steps of
\* that loop (UcDelayDone, UcAppendResponse) belong to SpecUpload only.
Next ==
    \/ PgAlertTimer
    \/ PgMappingChange
    \/ HpProcess
    \/ CpProcessData
    \/ CpChunk
    \/ CpYield
    \/ CpChunksReturn
    \/ HpValidated
    \/ UcStart
    \/ UcCreateOk
    \/ UcCreateFail
    \/ UcFetchRejects
    \/ HpCampaignReturned

Spec == Init /\ [][Next]_vars

(* ---------------------------------------------------------------------- *)
(* The upload part of a pipeline run over a large file                     *)
(* ---------------------------------------------------------------------- *)

\* The validation result of a file of n rows with n different valid phone
\* numbers: n leads, told apart by their position.
LargeValidation(n) ==
    ValidationResult([k \in 1..n |-> k],
                     [valid |-> [k \in 1..n |-> k], invalid |-> << >>,
                      seenPhones |-> {}, duplicates |-> 0])

\* handleProcessData at its call of createCampaign (the state HpValidated
\* leaves) for a file of n good rows, n up to MaxFullBatches full batches
\* and a partial one.  The validation of such a file is not replayed row by
\* row: the variables of the validation steps keep their idle values here.
InitUploadRun ==
    /\ OtherIdle
    /\ ValidateIdle
    /\ ChunkIdle
    /\ hasWorkerApi \in BOOLEAN
    /\ FormAtMapping
    /\ appState = "processing"
    /\ isProcessing = TRUE
    /\ alert = "none"
    /\ alertTimers = 1
    /\ pgResult = << >>
    /\ columnMapping = << [phoneColumn |-> "phone", nameColumn |-> "name",
                           emailColumn |-> "email"] >>
    /\ selected \in [type : { "assistant", "workflow" }, id : { "", "res-1" },
                     phoneNumberId : { "", "pn-1" }]
    /\ hpPc = "uploading"
    /\ hpProcessor = "created"
    /\ progress = 40
    /\ \E n \in LeadCounts :
          /\ parsedRows = [k \in 1..n |-> k]
          /\ hpValidation = << LargeValidation(n) >>
          /\ ucArgs = CreateCampaignArgs(LargeValidation(n), selected)
    /\ ucPc = "call"
    /\ ucBatches = << >>
    /\ ucI = 0
    /\ ucCampaignId = << >>
    /\ ucBatchResults = << >>
    /\ ucEvents = << >>
    /\ ucReturn = << >>
    /\ netInFlight = << >>
    /\ remoteCampaigns = {}

NextUploadRun ==
    \/ PgAlertTimer
    \/ UcStart
    \/ UcCreateOk
    \/ UcCreateFail
    \/ UcFetchRejects
    \/ UcDelayDone
    \/ UcAppendResponse
    \/ HpCampaignReturned

SpecUploadRun == InitUploadRun /\ [][NextUploadRun]_vars

(* ---------------------------------------------------------------------- *)
(* The page from its construction: the form, then the pipeline run         *)
(* ---------------------------------------------------------------------- *)

InitPage ==
    /\ OtherIdle
    /\ ValidateIdle
    /\ ChunkIdle
    /\ hasWorkerApi = TRUE
    /\ UploadIdle
    /\ PageIdle

\* The run is followed up to the creation request of createCampaign; Spec
\* and SpecUploadRun follow it from there.
NextPage ==
    \/ PgAlertTimer
    \/ PgKeyFocus
    \/ PgKeyChange
    \/ PgKeyBlur
    \/ VkBlurAnswered
    \/ VkBlurResources
    \/ PgNameChange
    \/ PgTypeChange
    \/ PgSelectId
    \/ PgSelectPhoneNumber
    \/ PgFileSelect
    \/ PgFileParsed
    \/ HsStart
    \/ HsAnswered
    \/ HsResources
    \/ PgMappingChange
    \/ HpProcess
    \/ CpProcessData
    \/ CpChunk
    \/ CpYield
    \/ CpChunksReturn
    \/ HpValidated
    \/ UcStart

SpecPage == InitPage /\ [][NextPage]_vars

(* ---------------------------------------------------------------------- *)
(* The form with the key check answered by the validate-key route          *)
(* ---------------------------------------------------------------------- *)

\* The steps of the form that can be taken before a key was found valid.
NextKeyRoute ==
    \/ PgAlertTimer
    \/ PgKeyFocus
    \/ PgKeyChange
    \/ PgKeyBlur
    \/ VkBlurAnsweredByRoute
    \/ PgNameChange
    \/ PgFileSelect
    \/ PgFileParsed
    \/ HsStart
    \/ HsAnsweredByRoute

SpecKeyRoute == InitPage /\ [][NextKeyRoute]_vars

(* ---------------------------------------------------------------------- *)
(* Claims about validateAndCleanData                                       *)
(* ---------------------------------------------------------------------- *)

\* the canonical phone of a row, << >> when the phone does not normalize
Canonical(row) ==
    LET r == formatPhoneNumber(row.phone) IN
    IF r.isValid /\ HasFormatted(r) THEN << r.formatted >> ELSE << >>

\* the rows of data whose phone normalizes to the canonical value c
Group(data, c) == { i \in 1..Len(data) : Canonical(data[i]) = << c >> }

CanonicalsOf(data) == { Canonical(data[i])[1] : i \in { k \in 1..Len(data) : Canonical(data[k]) # << >> } }

FirstOf(S) == CHOOSE i \in S : \A j \in S : i <= j

InvalidRecordsOf(res, i) == { k \in 1..Len(res.invalid) : res.invalid[k].rowIndex = i }

LeadsWithNumber(res, c) == { k \in 1..Len(res.valid) : res.valid[k].number = c }

\* the claim C1 for one returned result: per group one valid lead, the first
\* row of the group is not rejected, every later row is rejected as duplicate
DuplicateInvariantOf(data, res) ==
    \A c \in CanonicalsOf(data) :
        LET g == Group(data, c) IN
        /\ Cardinality(LeadsWithNumber(res, c)) = 1
        /\ InvalidRecordsOf(res, FirstOf(g)) = {}
        /\ \A i \in g \ { FirstOf(g) } :
              \E k \in InvalidRecordsOf(res, i) :
                  "Duplicate phone number" \in Range(res.invalid[k].errors)

\* C1: in validateAndCleanData, of the rows whose phones normalize to the same
\* canonical value exactly one is in the valid list, the first in input
\* order, and every later one is in the invalid list with 'Duplicate phone
\* number', whatever the names and emails of the rows are.
C1_FirstOfGroupIsValid ==
    vResult # << >> => DuplicateInvariantOf(vData, vResult[1])

\* a row with a good phone, no earlier row of the same canonical phone, and a
\* non-empty email that does not match the pattern
HasOnlyEmailProblem(data, i) ==
    /\ Canonical(data[i]) # << >>
    /\ \A j \in 1..(i - 1) : Canonical(data[j]) # Canonical(data[i])
    /\ Trim(data[i].email) # << >>
    /\ ~isValidEmail(Trim(data[i].email))

\* C5: a row whose phone normalizes, that duplicates no earlier canonical
\* phone and whose non-empty email does not match the pattern is emitted in
\* the valid list, as a lead without an email field, and is not rejected.
C5_BadEmailRowIsValid ==
    vResult # << >> =>
        \A i \in 1..Len(vData) :
            HasOnlyEmailProblem(vData, i) =>
                /\ InvalidRecordsOf(vResult[1], i) = {}
                /\ \E k \in LeadsWithNumber(vResult[1], Canonical(vData[i])[1]) :
                      "email" \notin DOMAIN vResult[1].valid[k]

\* the email of a row is non-empty after trimming and fails the pattern
HasBadEmail(row) == Trim(row.email) # << >> /\ ~isValidEmail(Trim(row.email))

\* row i repeats the canonical phone of an earlier row that was accepted (an
\* earlier row of the same phone with no email problem: the first such row
\* has no error at all)
RepeatsAcceptedPhone(data, i) ==
    /\ Canonical(data[i]) # << >>
    /\ \E j \in 1..(i - 1) :
          Canonical(data[j]) = Canonical(data[i]) /\ ~HasBadEmail(data[j])

\* the kinds of error that apply to row i, in the order of the checks
ErrorKindsOf(data, i) ==
    (IF Canonical(data[i]) = << >> THEN << "phone" >> ELSE << >>)
        \o (IF RepeatsAcceptedPhone(data, i) THEN << "duplicate" >> ELSE << >>)
        \o (IF HasBadEmail(data[i]) THEN << "email" >> ELSE << >>)

InvalidPhoneTexts ==
    { "Invalid phone: Phone number is required",
      "Invalid phone: Unable to parse phone number",
      "Invalid phone: Invalid phone number format",
      "Invalid phone: NOT_A_NUMBER" }

\* the kind of one error string
KindOfError(text) ==
    CASE text \in InvalidPhoneTexts -> "phone"
      [] text = "Duplicate phone number" -> "duplicate"
      [] text = "Invalid email format" -> "email"
      [] OTHER -> "other"

\* C18: validateAndCleanData puts a row in the invalid list if and only if at
\* least one error applies to it, and the record carries the row's index, its
\* original data and every error that applies, in check order (invalid
\* phone, duplicate phone, invalid email format): a phone failure does not
\* suppress the email error of the same row.
C18_InvalidRecordsCarryAllErrors ==
    vResult # << >> =>
        LET res == vResult[1]
            rejected == { i \in 1..Len(vData) : ErrorKindsOf(vData, i) # << >> }
        IN  /\ Len(res.invalid) = Cardinality(rejected)
            /\ \A k \in 1..Len(res.invalid) :
                  LET rec == res.invalid[k] IN
                  /\ rec.rowIndex \in rejected
                  /\ k > 1 => res.invalid[k - 1].rowIndex < rec.rowIndex
                  /\ rec.data = vData[rec.rowIndex].originalData
                  /\ [e \in 1..Len(rec.errors) |-> KindOfError(rec.errors[e])]
                        = ErrorKindsOf(vData, rec.rowIndex)
            /\ Len(res.valid) + Len(res.invalid) = Len(vData)

\* a result with a row rejected for its phone and its email, and a row
\* rejected as duplicate and for its email
C18_Witness ==
    /\ vResult # << >>
    /\ \E k \in 1..Len(vResult[1].invalid) :
          vResult[1].invalid[k].errors
              = << "Invalid phone: NOT_A_NUMBER", "Invalid email format" >>
    /\ \E k \in 1..Len(vResult[1].invalid) :
          vResult[1].invalid[k].errors
              = << "Duplicate phone number", "Invalid email format" >>

\* the phone is empty, or the parser throws on it or returns nothing, or the
\* parsed number is not a valid one
CannotNormalize(phone) ==
    \/ phone = ""
    \/ parsePhoneNumber(phone).kind # "number"
    \/ ~parsePhoneNumber(phone).valid

\* the forEach body is about to run on a row whose phone cannot be normalized
AtBadPhoneRow ==
    /\ vResult = << >>
    /\ vNext <= Len(vData)
    /\ CannotNormalize(vData[vNext].phone)

\* C19: a row whose phone cannot be normalized (empty, unparsable, or parsed
\* but invalid) never aborts validation: formatPhoneNumber returns a failure
\* value, the row becomes an invalid record whose first error starts with
\* 'Invalid phone:', it is added neither to the valid list nor to the
\* seen-set, and all following rows are still validated.
C19_BadPhoneIsRecovered ==
    /\ [](\A i \in 1..Len(vData) :
             CannotNormalize(vData[i].phone) =>
                 /\ ~formatPhoneNumber(vData[i].phone).isValid
                 /\ "error" \in DOMAIN formatPhoneNumber(vData[i].phone)
                 /\ vResult # << >> =>
                       /\ \E k \in InvalidRecordsOf(vResult[1], i) :
                             vResult[1].invalid[k].errors[1] \in InvalidPhoneTexts
                       /\ \A j \in (i + 1)..Len(vData) :
                             \/ InvalidRecordsOf(vResult[1], j) # {}
                             \/ LeadsWithNumber(vResult[1], Canonical(vData[j])[1]) # {}
                       /\ vResult[1].summary.totalRows = Len(vData)
                       /\ Len(vResult[1].valid) + Len(vResult[1].invalid) = Len(vData))
    /\ [][AtBadPhoneRow =>
            /\ vNext' = vNext + 1
            /\ vAcc'.valid = vAcc.valid
            /\ vAcc'.seenPhones = vAcc.seenPhones
            /\ Len(vAcc'.invalid) = Len(vAcc.invalid) + 1]_vars

\* a parsed-but-invalid phone and an empty phone are followed by a good row,
\* which is the one lead of the result
C19_Witness ==
    /\ vResult # << >>
    /\ Len(vData) = 3
    /\ vData[1].phone = "212-555-01"
    /\ vData[2].phone = ""
    /\ Len(vResult[1].invalid) = 2
    /\ Len(vResult[1].valid) = 1
    /\ vResult[1].valid[1].number = "+16465550199"

\* the k-th smallest element of a set of numbers
NthOf(S, k) == CHOOSE i \in S : Cardinality({ j \in S : j < i }) = k - 1

\* the records of a result that carry 'Duplicate phone number'
DuplicateRecords(res) ==
    { k \in 1..Len(res.invalid) :
        "Duplicate phone number" \in Range(res.invalid[k].errors) }

\* the claim C26 for one returned result
BucketsOf(data, res) ==
    LET invalidIdx == { res.invalid[k].rowIndex : k \in 1..Len(res.invalid) }
        validPos == { i \in 1..Len(data) : data[i].rowIndex \notin invalidIdx }
    IN  /\ res.summary.totalRows = Len(data)
        /\ res.summary.totalRows = res.summary.validRows + res.summary.invalidRows
        /\ res.summary.validRows = Len(res.valid)
        /\ res.summary.invalidRows = Len(res.invalid)
        /\ invalidIdx \subseteq { data[i].rowIndex : i \in 1..Len(data) }
        /\ \A k, l \in 1..Len(res.invalid) :
              k < l => res.invalid[k].rowIndex < res.invalid[l].rowIndex
        /\ Len(res.valid) = Cardinality(validPos)
        /\ \A k \in 1..Len(res.valid) :
              LET row == data[NthOf(validPos, k)] IN
              /\ Canonical(row) = << res.valid[k].number >>
              /\ res.valid[k].name = cleanText(row.name)
        /\ res.summary.duplicateRows = Cardinality(DuplicateRecords(res))
        /\ res.summary.duplicateRows <= res.summary.invalidRows

\* C26: validateAndCleanData puts every input row into exactly one of the
\* valid and the invalid list: totalRows = validRows + invalidRows = the
\* number of input rows, both lists keep the input order (the rowIndex values
\* of the invalid list increase strictly), and duplicateRows is the number of
\* invalid records carrying 'Duplicate phone number', at most invalidRows.
C26_EveryRowInOneBucket ==
    vResult # << >> => BucketsOf(vData, vResult[1])

\* a returned result with leads, a duplicate and a row rejected for another
\* reason
C26_Witness ==
    /\ vResult # << >>
    /\ Len(vResult[1].valid) >= 1
    /\ vResult[1].summary.duplicateRows >= 1
    /\ vResult[1].summary.invalidRows > vResult[1].summary.duplicateRows

\* the E.164 forms of the phones that parse to a valid number
CanonicalPhones ==
    { parsePhoneNumber(p).e164 :
        p \in { q \in Phones : /\ parsePhoneNumber(q).kind = "number"
                               /\ parsePhoneNumber(q).valid } }

NumbersOf(valid) == { valid[k].number : k \in 1..Len(valid) }

\* C27: after every prefix of the rows in validateAndCleanData the seen-set
\* is exactly the set of the numbers of the leads emitted so far; a phone
\* enters the seen-set only in the step that emits its row as a valid lead;
\* no two valid leads have the same number; and the number of every valid
\* lead is the canonical form of a phone that normalized.
C27_SeenSetIsValidNumbers ==
    /\ [](/\ vAcc.seenPhones = NumbersOf(vAcc.valid)
          /\ \A k, l \in 1..Len(vAcc.valid) :
                k # l => vAcc.valid[k].number # vAcc.valid[l].number
          /\ NumbersOf(vAcc.valid) \subseteq CanonicalPhones)
    /\ [][vAcc'.seenPhones # vAcc.seenPhones =>
            /\ vAcc'.invalid = vAcc.invalid
            /\ Len(vAcc'.valid) = Len(vAcc.valid) + 1
            /\ vAcc'.seenPhones =
                   vAcc.seenPhones \cup { vAcc'.valid[Len(vAcc'.valid)].number }]_vars

\* two numbers seen, and a later row rejected as a duplicate of one of them
C27_Witness ==
    /\ Cardinality(vAcc.seenPhones) = 2
    /\ vAcc.duplicates >= 1
    /\ Len(vAcc.invalid) >= 1

(* ---------------------------------------------------------------------- *)
(* Claims about ChunkProcessor                                             *)
(* ---------------------------------------------------------------------- *)

\* what the loop of processInChunks returns from index i on: the processor
\* applied to each chunk, the chunk results concatenated
RECURSIVE ResultsInChunks(_, _, _, _)
ResultsInChunks(kind, data, chunkSize, i) ==
    IF i >= Len(data) THEN << >>
    ELSE Processor(kind, Slice(data, i, i + chunkSize))
            \o ResultsInChunks(kind, data, chunkSize, i + chunkSize)

CpResolved == cpOutcome # << >> /\ cpOutcome[1].settled = "resolved"

\* C2: for every input array and chunk size, processData returns the same
\* result list on the worker path as on the sequential path, which is the
\* caller's processor applied chunk by chunk.
C2_PathsReturnSameResults ==
    CpResolved =>
        cpOutcome[1].value =
            ResultsInChunks(cpProcessor, cpData, cpOptions.chunkSize, 0)

\* the valid lists of the chunk results, concatenated
ConcatValid(results) == Flatten([k \in 1..Len(results) |-> results[k].valid])

NoRepeatedNumber(leads) ==
    \A a, b \in 1..Len(leads) : a # b => leads[a].number # leads[b].number

\* C6: when the rows are validated chunk by chunk (processInChunks calling
\* validateAndCleanData once per chunk), for every chunk size a row whose
\* canonical phone produced a lead in an earlier chunk is reported as
\* 'Duplicate phone number', the concatenated valid lists hold no canonical
\* phone twice, and they equal the valid list of one call over all rows.
C6_DuplicatesSpanChunks ==
    (CpResolved /\ cpProcessor = "direct") =>
        LET results == cpOutcome[1].value
            size == cpOptions.chunkSize
        IN  /\ NoRepeatedNumber(ConcatValid(results))
            /\ ConcatValid(results) = validateAndCleanData(cpData).valid
            /\ \A i \in 1..Len(cpData) :
                 LET k == ((i - 1) \div size) + 1
                     earlier == UNION { { results[j].valid[n].number :
                                            n \in 1..Len(results[j].valid) } :
                                        j \in 1..(k - 1) }
                 IN  (Canonical(cpData[i]) # << >> /\ Canonical(cpData[i])[1] \in earlier)
                        => \E r \in InvalidRecordsOf(results[k], i) :
                              "Duplicate phone number" \in Range(results[k].invalid[r].errors)

\* C17: on both paths of processData, onProgress is called once after each
\* chunk with (processed, total): total is the input length, processed the
\* number of items covered so far, min(i + chunkSize, total); the processed
\* values never decrease and never exceed total, and the last report of a
\* completed run has processed = total.
C17_ProgressOncePerChunk ==
    (cpOptions.onProgress /\ cpPc # "idle") =>
        LET n == Len(cpData)
            size == cpOptions.chunkSize
        IN  /\ \A k \in 1..Len(cpProgress) :
                  /\ cpProgress[k] = << Min(k * size, n), n >>
                  /\ cpProgress[k][1] <= n
                  /\ k > 1 => cpProgress[k - 1][1] <= cpProgress[k][1]
            /\ cpPc = "yield" => Len(cpProgress) = (cpI \div size) + 1
            /\ cpPc = "chunks" => Len(cpProgress) = NumChunks(Min(cpI, n), size)
            /\ CpResolved =>
                  /\ Len(cpProgress) = NumChunks(n, size)
                  /\ n > 0 => cpProgress[Len(cpProgress)][1] = n

\* a completed worker run over 10,001 items in eleven chunks, the last of one
C17_Witness ==
    /\ cpOptions.onProgress
    /\ CpResolved
    /\ cpWorker = "live"
    /\ Len(cpProgress) = 11
    /\ cpProgress[11] = << LargeDatasetThreshold + 1, LargeDatasetThreshold + 1 >>

\* C28: processInChunks terminates for every finite input array and every
\* chunkSize the constructor accepts: every call of it returns, the
\* concatenation of the chunk results being its value.
C28_ProcessInChunksTerminates ==
    <>(cpPc = "done" /\ cpOutcome = << [settled |-> "resolved", value |-> cpData] >>)

(* ---------------------------------------------------------------------- *)
(* Claims about VapiClient.createCampaign                                  *)
(* ---------------------------------------------------------------------- *)

\* the requests createCampaign has issued so far, in order
RequestsSent ==
    LET evs == SelectSeq(ucEvents, LAMBDA e : e.type = "request")
    IN  [k \in 1..Len(evs) |-> evs[k].request]

\* the positions in ucEvents of the events of one type
EventsOfType(type) == { p \in 1..Len(ucEvents) : ucEvents[p].type = type }

\* a creation request of this call was answered with a success status
CreationSucceeded ==
    \E p \in EventsOfType("response") : ucEvents[p].batch = 0 /\ ucEvents[p].ok

UcReturned == ucPc = "done" /\ ucReturn # << >>

\* the number of batches after the first
RemainingBatches == IF ucBatches = << >> THEN 0 ELSE Len(ucBatches) - 1

\* C3: once the creation request has succeeded, createCampaign attempts every
\* remaining batch exactly once, whatever the earlier append requests did
\* (non-success status or transport failure), and returns success=true with
\* the campaign id and one Batch Result per remaining batch, a failed batch
\* recorded with success=false and an error message.
C3_EveryRemainingBatchAttempted ==
    (UcReturned /\ CreationSucceeded) =>
        /\ \A i \in 1..RemainingBatches :
              Cardinality({ k \in 1..Len(RequestsSent) : RequestsSent[k].batch = i }) = 1
        /\ ucReturn[1].success
        /\ ucReturn[1].campaignId = ucCampaignId[1]
        /\ Len(ucReturn[1].details.batches) = RemainingBatches
        /\ \A k \in 1..Len(ucReturn[1].details.batches) :
              LET r == ucReturn[1].details.batches[k] IN
              \/ r.success
              \/ r.error # "undefined"

\* C4: when createCampaign returns success=false no campaign exists on the
\* remote API because of the call (no creation request of the call got a
\* success response) and the result carries no campaign id; when a creation
\* request succeeded the caller gets success=true with that campaign id.
C4_FailureMeansNoCampaign ==
    UcReturned =>
        /\ ~ucReturn[1].success =>
              /\ ~CreationSucceeded
              /\ remoteCampaigns = {}
              /\ "campaignId" \notin DOMAIN ucReturn[1]
        /\ CreationSucceeded =>
              /\ ucReturn[1].success
              /\ ucReturn[1].campaignId \in remoteCampaigns

\* C8: createCampaign never has two upload requests in flight: the creation
\* request comes first, the append request of batch i+1 is issued only after
\* the response of batch i, batches go out in increasing index order, and
\* every append request targets the campaign id the creation request returned.
C8_OneRequestAtATime ==
    LET reqs == RequestsSent
        requestAt == EventsOfType("request")
    IN  /\ Len(netInFlight) <= 1
        /\ netInFlight # << >> => netInFlight[1] = reqs[Len(reqs)]
        /\ \A k \in 1..Len(reqs) :
              /\ reqs[k].batch = k - 1
              /\ (reqs[k].endpoint = "campaign") <=> (k = 1)
        /\ \A p, q \in requestAt :
              p < q => \E r \in EventsOfType("response") :
                          /\ p < r /\ r < q
                          /\ ucEvents[r].batch = ucEvents[p].request.batch
        /\ \A k \in 2..Len(reqs) :
              \E r \in EventsOfType("response") :
                  /\ ucEvents[r].batch = 0
                  /\ ucEvents[r].ok
                  /\ reqs[k].campaign = ucEvents[r].id

\* an append request is in flight after an earlier append was answered
C8_Witness ==
    /\ ucPc = "awaitAppend"
    /\ Len(netInFlight) = 1
    /\ netInFlight[1].batch = 2
    /\ netInFlight[1].campaign = "cmp-2"

\* the customers of the requests sent, concatenated in the order sent
CustomersSent ==
    Flatten([k \in 1..Len(RequestsSent) |->
                IF RequestsSent[k].body.customers = << >> THEN << >>
                ELSE RequestsSent[k].body.customers[1]])

\* C9: createBatches returns contiguous slices of at most 1000 leads, none
\* empty and all but the last of exactly 1000, whose concatenation in order
\* (the first slice the customers of the creation request, the others those
\* of the append requests) is the lead list: no lead is duplicated, omitted
\* or reordered.
C9_BatchesPartitionLeads ==
    ucPc \notin { "idle", "call" } =>
        /\ Flatten(ucBatches) = ucArgs.leads
        /\ \A k \in 1..Len(ucBatches) :
              /\ Len(ucBatches[k]) >= 1
              /\ Len(ucBatches[k]) <= BatchSize
              /\ k < Len(ucBatches) => Len(ucBatches[k]) = BatchSize
              /\ ucBatches[k] = SubSeq(ucArgs.leads, (k - 1) * BatchSize + 1,
                                       (k - 1) * BatchSize + Len(ucBatches[k]))
        /\ \A k \in 1..Len(RequestsSent) :
              RequestsSent[k].body.customers = BatchAt(ucBatches, RequestsSent[k].batch)
        /\ (UcReturned /\ ucReturn[1].success) => CustomersSent = ucArgs.leads

\* a run over 2,500 leads that sent all three batches
C9_Witness ==
    /\ UcReturned
    /\ ucReturn[1].success
    /\ Len(ucArgs.leads) = 2 * BatchSize + BatchSize \div 2
    /\ Len(ucBatches) = 3
    /\ Len(RequestsSent) = 3

RECURSIVE SumLeadsProcessed(_)
SumLeadsProcessed(results) ==
    IF results = << >> THEN 0
    ELSE Head(results).leadsProcessed + SumLeadsProcessed(Tail(results))

\* C10: for N >= 1 leads a successful createCampaign has issued exactly one
\* creation request and ceil(N/1000)-1 append requests; its Batch Result list
\* has ceil(N/1000)-1 entries, in batch order, numbered 2..ceil(N/1000); their
\* leadsProcessed plus the size of the first batch sum to N; totalLeads is N.
C10_SuccessAccounting ==
    (UcReturned /\ ucReturn[1].success /\ Len(ucArgs.leads) >= 1) =>
        LET n == Len(ucArgs.leads)
            total == NumChunks(n, BatchSize)
            results == ucReturn[1].details.batches
            reqs == RequestsSent
        IN  /\ Cardinality({ k \in 1..Len(reqs) : reqs[k].endpoint = "campaign" }) = 1
            /\ Cardinality({ k \in 1..Len(reqs) : reqs[k].endpoint # "campaign" }) = total - 1
            /\ Len(results) = total - 1
            /\ \A k \in 1..Len(results) : results[k].batchNumber = k + 1
            /\ SumLeadsProcessed(results) + Len(reqs[1].body.customers[1]) = n
            /\ ucReturn[1].details.totalLeads = n

\* 2,500 leads: 3 batches, 2 Batch Results, one of them failed, aggregate 2500
C10_Witness ==
    /\ UcReturned
    /\ ucReturn[1].success
    /\ Len(ucArgs.leads) = 2 * BatchSize + BatchSize \div 2
    /\ Len(ucReturn[1].details.batches) = 2
    /\ ~ucReturn[1].details.batches[1].success
    /\ ucReturn[1].details.totalLeads = 2 * BatchSize + BatchSize \div 2

\* the creation request of this call was answered with a non-success status
CreationRefused ==
    \E p \in EventsOfType("response") : ucEvents[p].batch = 0 /\ ~ucEvents[p].ok

\* C11: when the creation request returns a non-success status, createCampaign
\* returns at once with success=false, the server's error message (or the
\* default text when the body has none), no campaign id and no Batch Results;
\* it has issued no append request and called no progress callback.
C11_CreationRefusedReturnsAtOnce ==
    CreationRefused =>
        LET last == ucEvents[Len(ucEvents)] IN
        /\ last.type = "response" /\ last.batch = 0 /\ ~last.ok
        /\ UcReturned
        /\ ~ucReturn[1].success
        /\ ucReturn[1].error = (IF last.message # "" THEN last.message
                                ELSE "Failed to create campaign")
        /\ DOMAIN ucReturn[1] = { "success", "error" }
        /\ Len(RequestsSent) = 1
        /\ EventsOfType("progress") = {}
        /\ EventsOfType("delay") = {}
        /\ ucBatchResults = << >>

\* 2,500 leads and a progress callback: the creation is refused with a body
\* that has no message, two batches are left unsent
C11_Witness ==
    /\ CreationRefused
    /\ UcReturned
    /\ Len(ucBatches) = 3
    /\ ucArgs.onProgress
    /\ ucReturn[1].error = "Failed to create campaign"

\* C12: for each batch after the first, createCampaign first waits the
\* inter-batch delay, then calls the progress callback with (batch number,
\* total batch count), then issues the append request of the batch.
C12_DelayThenProgressThenRequest ==
    ucArgs.onProgress =>
        \A q \in EventsOfType("request") :
            ucEvents[q].request.batch >= 1 =>
                \E d \in EventsOfType("delay"), c \in EventsOfType("progress") :
                    /\ d < c /\ c < q
                    /\ ucEvents[d].batch = ucEvents[q].request.batch
                    /\ ucEvents[c].batchNumber = ucEvents[q].request.batch + 1
                    /\ ucEvents[c].totalBatches = Len(ucBatches)

\* the calls of the progress callback of createCampaign so far, in order
ProgressCalls == SelectSeq(ucEvents, LAMBDA e : e.type = "progress")

\* C13: during upload the progress callback is called exactly once per batch
\* after the first, with totalBatches always the number of batches and a
\* batchNumber that goes up by one per call and never exceeds totalBatches;
\* the percentage the page derives from a call, 40 + round(batch/total*60),
\* never decreases during the run and never exceeds 100.
C13_UploadProgressMonotone ==
    /\ [](/\ \A k \in 1..Len(ProgressCalls) :
               /\ ProgressCalls[k].batchNumber = k + 1
               /\ ProgressCalls[k].totalBatches = Len(ucBatches)
               /\ ProgressCalls[k].batchNumber <= ProgressCalls[k].totalBatches
          /\ (UcReturned /\ ucReturn[1].success) =>
               Len(ProgressCalls) = RemainingBatches
          /\ (hpPc = "uploading" /\ ProgressCalls # << >>) =>
               LET last == ProgressCalls[Len(ProgressCalls)]
               IN  progress = 40 + RoundDiv(last.batchNumber * 60, last.totalBatches)
          /\ progress <= 100)
    /\ [][progress' >= progress]_vars

\* a run over three batches after its second call of the callback: 80, then 100
C13_Witness ==
    /\ hpPc = "uploading"
    /\ Len(ucBatches) = 3
    /\ Len(ProgressCalls) = 2
    /\ ProgressCalls[1].batchNumber = 2
    /\ progress = 100

(* ---------------------------------------------------------------------- *)
(* Claims about handleProcessData                                          *)
(* ---------------------------------------------------------------------- *)

\* the run of handleProcessData has ended, by its normal exit or by its catch
HpEnded == hpPc = "done"

\* C7: the chunk processor's worker resources are released once the pipeline
\* run ends: whenever handleProcessData has ended, on any exit, the
\* processor it created has been destroyed.
C7_DestroyOnEveryExit == HpEnded => hpProcessor = "destroyed"

\* processData of the run has chosen its path
HpPathChosen == hpPc = "validating" /\ cpPc \notin { "idle", "call" }

\* the validation of the run was handed to the background worker
HpOnWorkerPath == cpPc = "worker" \/ cpWorker = "live"

\* C15: in a pipeline run the validation of the rows is dispatched to the
\* background worker exactly when more than 10,000 rows were extracted and a
\* Worker facility is available; otherwise it runs on the sequential path.
C15_WorkerExactlyForLargeFiles ==
    HpPathChosen =>
        (HpOnWorkerPath <=>
            (Len(parsedRows) > LargeDatasetThreshold /\ hasWorkerApi))

\* the numbers of rows the calls of validateAndCleanData of the run received,
\* in call order (each result reports it as summary.totalRows)
RowsPerValidatorCall ==
    [k \in 1..Len(cpResults) |-> cpResults[k].summary.totalRows]

\* C16: in a pipeline run the extracted rows are split into chunks of at most
\* chunkSize (1000) rows: no call of validateAndCleanData receives more than
\* 1000 rows (so a file of n rows takes ceil(n/1000) calls), with a yield to
\* the host between two consecutive calls.
C16_ValidatorGetsAtMostChunkSize ==
    (hpPc = "validating" /\ cpPc \in { "chunks", "yield", "done" }) =>
        /\ \A k \in 1..Len(RowsPerValidatorCall) :
              RowsPerValidatorCall[k] <= DefaultChunkSize
        /\ cpPc = "done" =>
              Len(RowsPerValidatorCall) = NumChunks(Len(parsedRows), DefaultChunkSize)


(* ---------------------------------------------------------------------- *)
(* detectColumns                                                           *)
(* ---------------------------------------------------------------------- *)

InitDetect ==
    /\ ValidateIdle
    /\ ChunkIdle
    /\ hasWorkerApi = FALSE
    /\ UploadIdle
    /\ PageIdle
    /\ CleanIdle
    /\ ProxyIdle
    /\ dHeaders \in HeaderLists
    /\ dResult = << >>

\* the call of detectColumns
DetectCall ==
    /\ dResult = << >>
    /\ dResult' = << detectColumns(dHeaders) >>
    /\ UNCHANGED << dHeaders, cleanVars, proxyVars >>
    /\ UNCHANGED << validateVars, chunkVars, uploadVars, pageVars, progress >>

NextDetect == DetectCall

SpecDetect == InitDetect /\ [][NextDetect]_vars

\* the positions of the headers that score > 0 for a field
Scoring(headers, field) ==
    { i \in 1..Len(headers) : HeaderScore(headers[i], PatternsOf(field)) > 0 }

\* where a header stands in the header list
PositionOf(headers, header) == CHOOSE i \in 1..Len(headers) : headers[i] = header

\* the headers of Scenario A
ScenarioAHeaders ==
    << << "C", "u", "s", "t", "o", "m", "e", "r", " ", "N", "a", "m", "e" >>,
       << "M", "o", "b", "i", "l", "e", " ", "N", "u", "m", "b", "e", "r" >>,
       << "E", "m", "a", "i", "l", " ", "A", "d", "d", "r", "e", "s", "s" >> >>

\* what C22 says of one detection
DetectionIsRight(headers, d) ==
    LET scoring == Scoring(headers, d.field)
        score(i) == HeaderScore(headers[i], PatternsOf(d.field))
    IN  IF scoring = {}
        THEN d.detectedColumn = << >> /\ d.confidenceTenths = 0 /\ d.alternates = << >>
        ELSE /\ d.detectedColumn # << >>
             /\ d.detectedColumn[1] \in Range(headers)
             /\ LET best == PositionOf(headers, d.detectedColumn[1])
                    alt(k) == PositionOf(headers, d.alternates[k])
                    listed == { alt(k) : k \in 1..Len(d.alternates) }
                IN  /\ best \in scoring
                    /\ \A j \in scoring :
                          score(j) < score(best) \/ (score(j) = score(best) /\ best <= j)
                    /\ d.confidenceTenths = Min(score(best), 10)
                    /\ d.confidenceTenths \in 1..10
                    /\ Len(d.alternates) = Min(3, Cardinality(scoring) - 1)
                    /\ \A k \in 1..Len(d.alternates) :
                          /\ d.alternates[k] \in Range(headers)
                          /\ alt(k) \in scoring \ { best }
                          /\ score(alt(k)) <= score(best)
                    /\ \A k, m \in 1..Len(d.alternates) :
                          k < m => /\ alt(k) # alt(m)
                                   /\ score(alt(k)) >= score(alt(m))
                    /\ \A j \in scoring \ (listed \cup { best }) :
                          \A k \in 1..Len(d.alternates) : score(j) <= score(alt(k))

\* C22: for each field detectColumns returns the earliest header of maximal
\* score > 0, confidence min(score/10, 1), and as alternates the next at
\* most 3 headers of score > 0 in descending score, the detected column not
\* among them; with no header of score > 0 it returns none, 0 and no
\* alternates; for the headers of Scenario A the phone column is Mobile
\* Number with confidence >= 0.5.
C22_DetectionPicksBestHeader ==
    dResult # << >> =>
        /\ Len(dResult[1]) = 3
        /\ << dResult[1][1].field, dResult[1][2].field, dResult[1][3].field >>
              = << "phone", "name", "email" >>
        /\ \A f \in 1..3 : DetectionIsRight(dHeaders, dResult[1][f])
        /\ dHeaders = ScenarioAHeaders =>
              /\ dResult[1][1].detectedColumn = << ScenarioAHeaders[2] >>
              /\ dResult[1][1].confidenceTenths >= 5

\* detectColumns has returned for headers of which five score for the phone
\* field, the first header not the best of them, and none for the email field
C22_Witness ==
    /\ dResult # << >>
    /\ Cardinality(Scoring(dHeaders, "phone")) = 5
    /\ Len(dResult[1][1].alternates) = 3
    /\ dResult[1][1].detectedColumn # << dHeaders[1] >>
    /\ dResult[1][3].detectedColumn = << >>

(* ---------------------------------------------------------------------- *)
(* cleanText                                                               *)
(* ---------------------------------------------------------------------- *)

\* the characters of the names of the model: a letter, white space, and the
\* characters cleanText removes
NameChars == { "a", " ", "\t", "<", "\"" }

\* the names of the model; the empty one stands for '' and for undefined
NameTexts == SeqsUpTo(NameChars, MaxNameLen)

InitClean ==
    /\ ValidateIdle
    /\ ChunkIdle
    /\ hasWorkerApi = FALSE
    /\ UploadIdle
    /\ PageIdle
    /\ DetectIdle
    /\ ProxyIdle
    /\ ctText \in NameTexts
    /\ ctResult = << >>
    /\ ctAgain = << >>

\* const cleanName = cleanText(row.name)
CleanCall ==
    /\ ctResult = << >>
    /\ ctResult' = << cleanText(ctText) >>
    /\ UNCHANGED << ctText, ctAgain, detectVars, proxyVars >>
    /\ UNCHANGED << validateVars, chunkVars, uploadVars, pageVars, progress >>

\* cleanText called with the cleaned name
CleanAgain ==
    /\ ctResult # << >>
    /\ ctAgain = << >>
    /\ ctAgain' = << cleanText(ctResult[1]) >>
    /\ UNCHANGED << ctText, ctResult, detectVars, proxyVars >>
    /\ UNCHANGED << validateVars, chunkVars, uploadVars, pageVars, progress >>

NextClean == CleanCall \/ CleanAgain

SpecClean == InitClean /\ [][NextClean]_vars

\* a text is clean: no white space at either end, no two white-space
\* characters in a row, none of < > "
IsClean(text) ==
    /\ text # << >> => ~IsSpace(text[1]) /\ ~IsSpace(text[Len(text)])
    /\ \A i \in 1..(Len(text) - 1) : ~(IsSpace(text[i]) /\ IsSpace(text[i + 1]))
    /\ \A i \in 1..Len(text) : text[i] \notin { "<", ">", "\"" }

\* C23: for every input name cleanText returns a text with no leading or
\* trailing white space, no run of two or more white-space characters and
\* none of < > ", and cleanText applied to its own result changes nothing.
C23_CleanTextIsCleanAndIdempotent ==
    /\ ctResult # << >> => IsClean(ctResult[1])
    /\ ctAgain # << >> => ctAgain = ctResult

(* ---------------------------------------------------------------------- *)
(* app/api/vapi-proxy: the rate limiter and the two handlers               *)
(* ---------------------------------------------------------------------- *)

\* a faulty limiter, for comparison: a refused request is counted as well
LimiterAfterCounting(limit, time) ==
    IF limit = << >> \/ time > limit[1].resetTime
    THEN << [count |-> 1, resetTime |-> time + RateWindow] >>
    ELSE << [limit[1] EXCEPT !.count = @ + 1] >>

\* isRateLimited: the entry of the IP after the call
LimiterAfter(limit, time) ==
    IF limit = << >> \/ time > limit[1].resetTime
    THEN << [count |-> 1, resetTime |-> time + RateWindow] >>
    ELSE IF limit[1].count >= RateLimit THEN limit
    ELSE << [limit[1] EXCEPT !.count = @ + 1] >>

\* isRateLimited: the value returned
isRateLimited(limit, time) ==
    /\ ~(limit = << >> \/ time > limit[1].resetTime)
    /\ limit[1].count >= RateLimit

\* the methods the route exports
Methods == { "GET", "POST" }

\* the answer of the handler: 400, 429, 500 when request.json() throws in
\* POST, else "forwarded" (the request went to the upstream API)
ProxyAnswer(method, key, bodyIsJson, limit, time) ==
    IF key = "" \/ ~uuidRegexTest(key) THEN "400"
    ELSE IF isRateLimited(limit, time) THEN "429"
    ELSE IF method = "POST" /\ ~bodyIsJson THEN "500"
    ELSE "forwarded"

\* POST or GET of the route, up to its fetch of the upstream API or to its
\* return before; there is no await before the limiter has been called
PxHandle(ip, method, key, bodyIsJson) ==
    LET answer == ProxyAnswer(method, key, bodyIsJson, rateLimitMap[ip], now) IN
    /\ rateLimitMap' =
          IF answer = "400" THEN rateLimitMap
          ELSE [rateLimitMap EXCEPT ![ip] = LimiterAfter(rateLimitMap[ip], now)]
    /\ pxLast' = << [ip |-> ip, answer |-> answer] >>

\* a request of any client, of any kind
PxRequest ==
    /\ \E ip \in ClientIps, method \in Methods, key \in Keys, bodyIsJson \in BOOLEAN :
          PxHandle(ip, method, key, bodyIsJson)
    /\ UNCHANGED << now, pxTicks, pxForwarded, detectVars, cleanVars >>
    /\ UNCHANGED << validateVars, chunkVars, uploadVars, pageVars, progress >>

\* a well-formed request with a UUID key, and the record of its time when it
\* is forwarded
PxGoodRequest ==
    /\ \E ip \in ClientIps, method \in Methods :
          /\ ip # "unknown" => Len(pxForwarded[ip]) < MaxOtherForwarded
          /\ PxHandle(ip, method, UuidKey, TRUE)
          /\ pxForwarded' =
                IF isRateLimited(rateLimitMap[ip], now) THEN pxForwarded
                ELSE [pxForwarded EXCEPT ![ip] = Append(@, now)]
    /\ UNCHANGED << now, pxTicks, detectVars, cleanVars >>
    /\ UNCHANGED << validateVars, chunkVars, uploadVars, pageVars, progress >>

\* how far the clock of the model advances in one step
Ticks == { 1, RateWindow }

\* time passes
PxTick ==
    /\ pxTicks < MaxTicks
    /\ pxTicks' = pxTicks + 1
    /\ \E d \in Ticks : now' = now + d
    /\ UNCHANGED << rateLimitMap, pxForwarded, pxLast, detectVars, cleanVars >>
    /\ UNCHANGED << validateVars, chunkVars, uploadVars, pageVars, progress >>

InitProxy ==
    /\ ValidateIdle
    /\ ChunkIdle
    /\ hasWorkerApi = FALSE
    /\ UploadIdle
    /\ PageIdle
    /\ OtherIdle

NextProxy == PxRequest \/ PxTick

SpecProxy == InitProxy /\ [][NextProxy]_vars

\* the proxy under well-formed requests, the forwarded ones on record
NextProxyLog == PxGoodRequest \/ PxTick

SpecProxyLog == InitProxy /\ [][NextProxyLog]_vars

\* the requests of an IP forwarded in the 60,000 ms that begin at a time
ForwardedIn(ip, from) ==
    { k \in 1..Len(pxForwarded[ip]) :
          pxForwarded[ip][k] >= from /\ pxForwarded[ip][k] < from + RateWindow }

\* C24: for every client IP and every interval of 60,000 ms at most 10
\* requests of that IP are forwarded to the upstream API.
C24_AtMostTenPerMinute ==
    \A ip \in ClientIps :
        \A k \in 1..Len(pxForwarded[ip]) :
            Cardinality(ForwardedIn(ip, pxForwarded[ip][k])) <= RateLimit

\* the answers of a request that the limiter let pass
Admitted == { "500", "forwarded" }

\* the entry an admitted request leaves from the entry old at the time
\* given: a new window with count 1 when there was none or it has run out,
\* else one more in the same window
EntryAfterAdmission(old, new, time) ==
    IF old = << >> \/ time > old[1].resetTime
    THEN new = << [count |-> 1, resetTime |-> time + RateWindow] >>
    ELSE /\ old[1].count < RateLimit
         /\ new = << [count |-> old[1].count + 1, resetTime |-> old[1].resetTime] >>

\* C29: in the proxy a rejected request leaves the rate-limit state as it
\* is: a request answered 400 or 429 changes no entry; no request changes
\* the entry of another IP; an admitted request adds one to the count of its
\* IP within the window or, with no window or past resetTime, starts a new
\* window with count 1.
C29_RejectedRequestsLeaveLimiterAlone ==
    [][/\ \A ip \in ClientIps :
             rateLimitMap'[ip] # rateLimitMap[ip] =>
                 /\ pxLast' # << >>
                 /\ pxLast'[1].ip = ip
                 /\ pxLast'[1].answer \in Admitted
                 /\ EntryAfterAdmission(rateLimitMap[ip], rateLimitMap'[ip], now)
       /\ pxLast' # pxLast =>
             IF pxLast'[1].answer \in Admitted
             THEN rateLimitMap'[pxLast'[1].ip] # rateLimitMap[pxLast'[1].ip]
             ELSE /\ rateLimitMap' = rateLimitMap
                  /\ pxLast'[1].answer = "429" =>
                        /\ rateLimitMap[pxLast'[1].ip] # << >>
                        /\ rateLimitMap[pxLast'[1].ip][1].count >= RateLimit
                        /\ now <= rateLimitMap[pxLast'[1].ip][1].resetTime]_vars

\* a request was answered 429 with the window of its IP full, while the
\* other IP has a window of its own with a smaller count
C29_Witness ==
    /\ pxLast # << >>
    /\ pxLast[1].answer = "429"
    /\ rateLimitMap[pxLast[1].ip] # << >>
    /\ rateLimitMap[pxLast[1].ip][1].count = RateLimit
    /\ \E ip \in ClientIps \ { pxLast[1].ip } :
          /\ rateLimitMap[ip] # << >>
          /\ rateLimitMap[ip][1].count < RateLimit

(* ---------------------------------------------------------------------- *)
(* handleProcessData called in every state of the mapping section          *)
(* ---------------------------------------------------------------------- *)

\* The page when the column mapping is shown, as in Init, over the small
\* files; here the handler is called whether or not its button is enabled.
InitHandler ==
    /\ OtherIdle
    /\ ValidateIdle
    /\ ChunkIdle
    /\ hasWorkerApi = TRUE
    /\ UploadIdle
    /\ FormAtMapping
    /\ appState = "mapping"
    /\ isProcessing = FALSE
    /\ alert = "success"
    /\ alertTimers = 1
    /\ pgResult = << >>
    /\ columnMapping = << >>
    /\ parsedRows \in SeqsUpTo(ChunkRawRows, MaxRows) \ { << >> }
    /\ selected = [type |-> "assistant", id |-> "res-1", phoneNumberId |-> "pn-1"]
    /\ hpPc = "idle"
    /\ hpValidation = << >>
    /\ hpProcessor = "none"
    /\ progress = 0

NextHandler ==
    \/ PgAlertTimer
    \/ PgMappingChange
    \/ HpCall
    \/ CpProcessData
    \/ CpChunk
    \/ CpYield
    \/ CpChunksReturn
    \/ HpValidated
    \/ UcStart
    \/ UcCreateOk
    \/ UcCreateFail
    \/ UcFetchRejects
    \/ HpCampaignReturned

SpecHandler == InitHandler /\ [][NextHandler]_vars

\* no phone column is selected: columnMapping is null or its phoneColumn ''
NoPhoneColumn == columnMapping = << >> \/ columnMapping[1].phoneColumn = ""

\* the run of handleProcessData has started: the 'processing' state was
\* entered or the rows were extracted and handed to the validation
HpStarted == appState = "processing" \/ hpPc # "idle" \/ cpData # << >>

\* C21: validation never proceeds without a phone column: the 'processing'
\* state is entered and the rows are extracted and validated only with a
\* non-empty phoneColumn, and while no phone column is selected a call of
\* handleProcessData changes nothing but the alert, which becomes a warning.
C21_NoValidationWithoutPhoneColumn ==
    /\ [](HpStarted => ~NoPhoneColumn)
    /\ [][NoPhoneColumn =>
            /\ UNCHANGED << appState, isProcessing, pgResult, parsedRows, selected,
                            hpPc, hpValidation, hpProcessor, progress >>
            /\ UNCHANGED << formVars, otherVars, validateVars, chunkVars, uploadVars >>
            /\ (alert' # alert /\ alert' # "none") =>
                   /\ alert' = "warning"
                   /\ UNCHANGED << alertTimers, columnMapping >>]_vars

\* handleProcessData was called with no phone column selected
C21_Witness ==
    /\ appState = "mapping"
    /\ NoPhoneColumn
    /\ alert = "warning"
    /\ hpPc = "idle"

(* ---------------------------------------------------------------------- *)
(* Claims about the alert                                                  *)
(* ---------------------------------------------------------------------- *)

\* C30: an error or warning alert stays displayed until a handler replaces
\* or clears it: the auto-hide timer of an earlier success alert, when it
\* fires, never clears an error or warning alert shown after that success
\* alert.  (The alert displayed is the one shown last, and only success
\* alerts start timers.)
C30_TimerLeavesLaterAlerts ==
    [][(alert \in { "error", "warning" } /\ alertTimers' < alertTimers)
           => alert' = alert]_vars

(* ---------------------------------------------------------------------- *)
(* Claims about the key check                                              *)
(* ---------------------------------------------------------------------- *)

\* C25: a key in the UUID format can be validated: when the validation
\* endpoint answers, a key that passes the UUID check of the page is never
\* found invalid, so that handleStartProcessing goes on to the 'mapping'
\* state.
C25_UuidKeyIsFoundValid ==
    uuidRegexTest(apiKey) => apiKeyValid # "false"

(* ---------------------------------------------------------------------- *)
(* Claims about the page from its construction                             *)
(* ---------------------------------------------------------------------- *)

\* the selectors a request body carries
SelectorsOf(body) ==
    { key \in { "assistantId", "workflowId" } : body[key] # "" }

\* C20: every campaign-creation request the application sends carries
\* exactly one resource selector: exactly one of assistantId and workflowId
\* is present in its body, whatever the user did in the form before.
C20_ExactlyOneSelector ==
    \A k \in 1..Len(RequestsSent) :
        RequestsSent[k].endpoint = "campaign" =>
            Cardinality(SelectorsOf(RequestsSent[k].body)) = 1

====================================================================
